---- MODULE Spec2Model ----
(***************************************************************************)
(* Alerting engine of the Vaultize analytics platform: rule loader,        *)
(* per-rule state machine with throttling, scheduler ticks, manual         *)
(* triggers, webhook fan-out with retries, and the history recorder.       *)
(*                                                                         *)
(* Everything runs on one asyncio event loop.  A coroutine runs            *)
(* uninterrupted between two awaits, so every action below is one          *)
(* synchronous stretch of code: from a task's start (or its resumption     *)
(* after an await) up to its next await (or its end).                      *)
(***************************************************************************)
EXTENDS Integers, Sequences, FiniteSets, TLC

(***************************************************************************)
(* Bounds of the model.                                                    *)
(***************************************************************************)
MaxTime == 3
MaxTicks == 2
MaxQueryDelay == 1
Retries == 2
MaxFiles == 2
MaxLen == 6

(***************************************************************************)
(* Values of the program's types.                                          *)
(***************************************************************************)
NoTime == -1
NoValue == -1

OK == "ok"
FIRING == "firing"
RESOLVED == "resolved"
AlertState == {OK, FIRING, RESOLVED}

QueryValues == {50, 150}
QueryErrors == {"ConnectionTimeout"}

Rule1 ==
  [name |-> "r1", enabled |-> TRUE, interval |-> <<"5", "m">>,
   condition |-> [operator |-> "gt", value |-> 100],
   actions |-> <<"a1", "a2">>,
   throttle |-> [value |-> 2, unit |-> "seconds"]]

Rule2 ==
  [name |-> "r2", enabled |-> TRUE, interval |-> <<"1", "h">>,
   condition |-> [operator |-> "lt", value |-> 100],
   actions |-> <<>>,
   throttle |-> [value |-> 1, unit |-> "minutes"]]

\* Rule1 with a schedule.interval that is not <N><s|m|h|d>
Rule1BadInterval == [Rule1 EXCEPT !.interval = <<"5", "x">>]

\* the rules of the deployment
AllRules == <<Rule1, Rule2>>

\* A rule file: json tells whether its text parses as JSON, data is the
\* document it holds.
RuleFile(rule) == [json |-> TRUE, data |-> rule]

\* What a load finds: whether the rules directory exists, its *.json files in
\* the order of their sorted names, and the environment of the process.
\* environ is the set of the bindings [var, value] of the variables set.
DirectoryIn(files, environ) ==
  [exists |-> TRUE, files |-> files, environ |-> environ]

Directory(files) == DirectoryIn(files, {})

NoDirectory == [exists |-> FALSE, files |-> <<>>, environ |-> {}]

RulesDir == Directory(<<RuleFile(Rule1), RuleFile(Rule2)>>)
RulesDirBadInterval == Directory(<<RuleFile(Rule1BadInterval), RuleFile(Rule2)>>)

\* what the operator may have put on disk when the rules are (re)loaded
Disk == {RulesDir, RulesDirBadInterval}

\* Rule1 switched off, and Rule1 edited to another threshold
Rule1Disabled == [Rule1 EXCEPT !.enabled = FALSE]
Rule1Edited == [Rule1 EXCEPT !.condition.value = 40]

\* the edits of the directory a reload may find: Rule2's file removed (or
\* not yet added), Rule1 disabled, Rule1 edited
DiskEdits ==
  {RulesDir,
   Directory(<<RuleFile(Rule1)>>),
   Directory(<<RuleFile(Rule1Disabled), RuleFile(Rule2)>>),
   Directory(<<RuleFile(Rule1Edited), RuleFile(Rule2)>>)}

\* Rule1 with a webhook URL taken from the environment
Rule1Hook ==
  [name |-> "r1", enabled |-> TRUE, interval |-> <<"5", "m">>,
   condition |-> [operator |-> "gt", value |-> 100],
   actions |-> <<"a1", "a2">>,
   throttle |-> [value |-> 2, unit |-> "seconds"],
   url |-> <<[var |-> "HOOK"], [lit |-> "/alert"]>>]

\* a file that is not JSON, and a JSON file that is not a rule
NotJsonFile == [json |-> FALSE, data |-> [text |-> "not valid json{{{"]]
BadSchemaFile == [json |-> TRUE, data |-> [name |-> "missing fields"]]

LoaderFiles ==
  {RuleFile(Rule1Hook), RuleFile(Rule1Disabled), RuleFile(Rule2),
   NotJsonFile, BadSchemaFile}

Environs == {{}, {[var |-> "HOOK", value |-> "http://hook"]}}

RECURSIVE SeqsUpTo(_, _)
SeqsUpTo(S, n) ==
  IF n = 0 THEN {<<>>}
  ELSE SeqsUpTo(S, n - 1) \cup
       {Append(q, x) : q \in {p \in SeqsUpTo(S, n - 1) : Len(p) = n - 1}, x \in S}

\* what a call of the loader may find: no directory, or up to MaxFiles files
LoaderDirs ==
  {NoDirectory} \cup
  {DirectoryIn(files, environ) :
     files \in SeqsUpTo(LoaderFiles, MaxFiles), environ \in Environs}

RuleNames == {AllRules[i].name : i \in DOMAIN AllRules}
TriggerNames == RuleNames \cup {"nope"}
ManualIds == {"m1"}
TaskIds == RuleNames \cup ManualIds

(***************************************************************************)
(* AlertStateRecord and its document form.                                 *)
(***************************************************************************)
AlertStateRecord(rule_name) ==
  [rule_name |-> rule_name, state |-> OK, last_checked |-> NoTime,
   last_fired |-> NoTime, last_resolved |-> NoTime, last_notified |-> NoTime,
   consecutive_fires |-> 0, current_value |-> NoValue, threshold |-> 0]

isoformat(t) == IF t = NoTime THEN <<>> ELSE <<"iso", t>>

to_dict(rec) ==
  [rule_name |-> rec.rule_name, state |-> rec.state,
   last_checked |-> isoformat(rec.last_checked),
   last_fired |-> isoformat(rec.last_fired),
   last_resolved |-> isoformat(rec.last_resolved),
   last_notified |-> isoformat(rec.last_notified),
   consecutive_fires |-> rec.consecutive_fires,
   current_value |-> rec.current_value, threshold |-> rec.threshold]

parse_dt(val) == IF val = <<>> THEN NoTime ELSE val[2]

\* from_dict forgetting when the rule last notified
from_dict_without_last_notified(data) ==
  [rule_name |-> data.rule_name, state |-> data.state,
   last_checked |-> parse_dt(data.last_checked),
   last_fired |-> parse_dt(data.last_fired),
   last_resolved |-> parse_dt(data.last_resolved),
   last_notified |-> NoTime,
   consecutive_fires |-> data.consecutive_fires,
   current_value |-> data.current_value, threshold |-> data.threshold]

from_dict(data) ==
  [rule_name |-> data.rule_name, state |-> data.state,
   last_checked |-> parse_dt(data.last_checked),
   last_fired |-> parse_dt(data.last_fired),
   last_resolved |-> parse_dt(data.last_resolved),
   last_notified |-> parse_dt(data.last_notified),
   consecutive_fires |-> data.consecutive_fires,
   current_value |-> data.current_value, threshold |-> data.threshold]

(***************************************************************************)
(* Condition evaluator.                                                    *)
(***************************************************************************)
OPERATORS == {"gt", "gte", "lt", "lte", "eq"}

op_func(op, a, b) ==
  CASE op = "gt" -> a > b
    [] op = "gte" -> a >= b
    [] op = "lt" -> a < b
    [] op = "lte" -> a =< b
    [] op = "eq" -> a = b

\* the two f-strings of evaluate, by their parts
UnknownOperatorMessage(rule) ==
  [text |-> "Unknown operator: ", operator |-> rule.condition.operator]

ComparisonMessage(rule, qvalue, condition_met) ==
  [text |-> "Alert", name |-> rule.name, value |-> qvalue,
   operator |-> rule.condition.operator, threshold |-> rule.condition.value,
   result |-> condition_met]

\* evaluate with an unknown operator read as "gt"
evaluate_unknown_as_gt(rule, qvalue) ==
  LET known == rule.condition.operator \in OPERATORS
      condition_met == IF known
                       THEN op_func(rule.condition.operator, qvalue, rule.condition.value)
                       ELSE qvalue > rule.condition.value
  IN [condition_met |-> condition_met,
      actual_value |-> qvalue,
      threshold |-> rule.condition.value,
      operator |-> rule.condition.operator,
      message |-> ComparisonMessage(rule, qvalue, condition_met)]

evaluate(rule, qvalue) ==
  LET known == rule.condition.operator \in OPERATORS
      condition_met == IF known
                       THEN op_func(rule.condition.operator, qvalue, rule.condition.value)
                       ELSE FALSE
  IN [condition_met |-> condition_met,
      actual_value |-> qvalue,
      threshold |-> rule.condition.value,
      operator |-> rule.condition.operator,
      message |-> IF known
                  THEN ComparisonMessage(rule, qvalue, condition_met)
                  ELSE UnknownOperatorMessage(rule)]

\* rule files whose operator may be outside OPERATORS: r1 with every operator
\* and a threshold equal to or between the query values, r2 with "GT"
OperatorStrings == OPERATORS \cup {"ne"}
Thresholds == {100, 150}

Rule1With(op, threshold) ==
  [Rule1 EXCEPT !.condition = [operator |-> op, value |-> threshold]]

Rule2Unknown == [Rule2 EXCEPT !.condition.operator = "GT"]

OperatorDirs ==
  {Directory(<<RuleFile(Rule1With(op, th)), RuleFile(Rule2Unknown)>>) :
     op \in OperatorStrings, th \in Thresholds}

(***************************************************************************)
(* State manager: throttle window, throttle gate and the transition.       *)
(***************************************************************************)
_parse_throttle_seconds(throttle) ==
  throttle.value * (CASE throttle.unit = "seconds" -> 1
                      [] throttle.unit = "minutes" -> 60
                      [] throttle.unit = "hours" -> 3600
                      [] OTHER -> 60)

\* should_notify letting a notification through only after the window
should_notify_after_window(rec, rule, now) ==
  IF rec.last_notified = NoTime
  THEN TRUE
  ELSE (now - rec.last_notified) > _parse_throttle_seconds(rule.throttle)

should_notify(rec, rule, now) ==
  IF rec.last_notified = NoTime
  THEN TRUE
  ELSE (now - rec.last_notified) >= _parse_throttle_seconds(rule.throttle)

\* touch leaving last_checked alone
touch_without_last_checked(rec, rule, current_value, now) ==
  [rec EXCEPT !.current_value = current_value,
              !.threshold = rule.condition.value]

\* update_state, first statements: every call stamps the record
touch(rec, rule, current_value, now) ==
  [rec EXCEPT !.last_checked = now,
              !.current_value = current_value,
              !.threshold = rule.condition.value]

\* apply_condition stamping last_fired on every evaluation that finds the
\* condition met
apply_condition_stamping_every_fire(rec, previous_state, condition_met, now) ==
  IF condition_met
  THEN IF previous_state \in {OK, RESOLVED}
       THEN [rec EXCEPT !.state = FIRING, !.last_fired = now,
                        !.consecutive_fires = 1]
       ELSE [rec EXCEPT !.last_fired = now, !.consecutive_fires = @ + 1]
  ELSE IF previous_state = FIRING
       THEN [rec EXCEPT !.state = RESOLVED, !.last_resolved = now,
                        !.consecutive_fires = 0]
       ELSE IF previous_state = RESOLVED
            THEN [rec EXCEPT !.state = OK, !.consecutive_fires = 0]
            ELSE rec

\* apply_condition clearing the timestamps of a rule that stays OK
apply_condition_clearing_on_ok(rec, previous_state, condition_met, now) ==
  IF condition_met
  THEN IF previous_state \in {OK, RESOLVED}
       THEN [rec EXCEPT !.state = FIRING, !.last_fired = now,
                        !.consecutive_fires = 1]
       ELSE [rec EXCEPT !.consecutive_fires = @ + 1]
  ELSE IF previous_state = FIRING
       THEN [rec EXCEPT !.state = RESOLVED, !.last_resolved = now,
                        !.consecutive_fires = 0]
       ELSE IF previous_state = RESOLVED
            THEN [rec EXCEPT !.state = OK, !.consecutive_fires = 0]
            ELSE [rec EXCEPT !.last_fired = NoTime, !.last_resolved = NoTime,
                             !.last_notified = NoTime]

\* apply_condition taking a FIRING rule whose condition cleared straight to OK
apply_condition_skipping_resolved(rec, previous_state, condition_met, now) ==
  IF condition_met
  THEN IF previous_state \in {OK, RESOLVED}
       THEN [rec EXCEPT !.state = FIRING, !.last_fired = now,
                        !.consecutive_fires = 1]
       ELSE [rec EXCEPT !.consecutive_fires = @ + 1]
  ELSE IF previous_state \in {FIRING, RESOLVED}
       THEN [rec EXCEPT !.state = OK, !.last_resolved = now,
                        !.consecutive_fires = 0]
       ELSE rec

\* apply_condition forgetting to reset the counter on resolve
apply_condition_keeping_count(rec, previous_state, condition_met, now) ==
  IF condition_met
  THEN IF previous_state \in {OK, RESOLVED}
       THEN [rec EXCEPT !.state = FIRING, !.last_fired = now,
                        !.consecutive_fires = 1]
       ELSE [rec EXCEPT !.consecutive_fires = @ + 1]
  ELSE IF previous_state = FIRING
       THEN [rec EXCEPT !.state = RESOLVED, !.last_resolved = now]
       ELSE IF previous_state = RESOLVED
            THEN [rec EXCEPT !.state = OK, !.consecutive_fires = 0]
            ELSE rec

\* apply_condition leaving a RESOLVED rule where it is while the condition
\* stays cleared
apply_condition_resting_in_resolved(rec, previous_state, condition_met, now) ==
  IF condition_met
  THEN IF previous_state \in {OK, RESOLVED}
       THEN [rec EXCEPT !.state = FIRING, !.last_fired = now,
                        !.consecutive_fires = 1]
       ELSE [rec EXCEPT !.consecutive_fires = @ + 1]
  ELSE IF previous_state = FIRING
       THEN [rec EXCEPT !.state = RESOLVED, !.last_resolved = now,
                        !.consecutive_fires = 0]
       ELSE rec

\* update_state, the branches on condition_met and previous_state: the
\* fields of the record each branch assigns
apply_condition(rec, previous_state, condition_met, now) ==
  IF condition_met
  THEN IF previous_state \in {OK, RESOLVED}
       THEN [rec EXCEPT !.state = FIRING, !.last_fired = now,
                        !.consecutive_fires = 1]
       ELSE [rec EXCEPT !.consecutive_fires = @ + 1]
  ELSE IF previous_state = FIRING
       THEN [rec EXCEPT !.state = RESOLVED, !.last_resolved = now,
                        !.consecutive_fires = 0]
       ELSE IF previous_state = RESOLVED
            THEN [rec EXCEPT !.state = OK, !.consecutive_fires = 0]
            ELSE rec

\* notify_decision announcing the return from RESOLVED to OK as well
notify_decision_announcing_ok(rec, rule, previous_state, condition_met, now) ==
  IF condition_met
  THEN IF previous_state \in {OK, RESOLVED}
       THEN TRUE
       ELSE should_notify(rec, rule, now)
  ELSE previous_state \in {FIRING, RESOLVED}

\* notify_decision putting every fire through the throttle gate
notify_decision_throttling_fires(rec, rule, previous_state, condition_met, now) ==
  IF condition_met
  THEN should_notify(rec, rule, now)
  ELSE previous_state = FIRING

\* update_state, the same branches: the value each gives should_notify.
\* should_notify reads the clock again in the statement that follows the
\* counter increment, with no I/O in between: both reads are the same instant.
notify_decision(rec, rule, previous_state, condition_met, now) ==
  IF condition_met
  THEN IF previous_state \in {OK, RESOLVED}
       THEN TRUE
       ELSE should_notify(rec, rule, now)
  ELSE previous_state = FIRING

\* mark_notified leaving the stamp to whoever delivers the notification
mark_notified_on_delivery(rec, notify, now) == rec

\* mark_notified stamping on every call
mark_notified_always(rec, notify, now) ==
  [rec EXCEPT !.last_notified = now]

\* update_state, after the branches: the admission stamps last_notified
mark_notified(rec, notify, now) ==
  IF notify THEN [rec EXCEPT !.last_notified = now] ELSE rec

\* rec: the record get_state returned; now: the clock read of update_state.
update_state(rec, rule, condition_met, current_value, now) ==
  LET previous_state == rec.state
      r1 == apply_condition(touch(rec, rule, current_value, now),
                            previous_state, condition_met, now)
      notify == notify_decision(r1, rule, previous_state, condition_met, now)
  IN [rec |-> mark_notified(r1, notify, now),
      tr |-> [previous_state |-> previous_state, new_state |-> r1.state,
              changed |-> previous_state # r1.state, should_notify |-> notify]]

(***************************************************************************)
(* Rule loader and interval parsing.                                       *)
(***************************************************************************)
Digits == {"0", "1", "2", "3", "4", "5", "6", "7", "8", "9"}
INTERVAL_UNITS == {"s", "m", "h", "d"}

\* INTERVAL_PATTERN ^(\d+)([smhd])$ over the characters of the string
_parse_interval_ok(interval) ==
  /\ Len(interval) >= 2
  /\ \A i \in 1..(Len(interval) - 1) : interval[i] \in Digits
  /\ interval[Len(interval)] \in INTERVAL_UNITS

\* A string with ${VAR} references: a sequence of pieces, each a literal
\* [lit |-> text] or a reference [var |-> name].
IsEnvRef(piece) == "var" \in DOMAIN piece

IsSet(environ, var) == \E b \in environ : b.var = var

getenv(environ, var) == (CHOOSE b \in environ : b.var = var).value

\* ENV_VAR_PATTERN.sub on one string: a reference to a variable that is set
\* becomes its value, any other piece stays as it is
resolve_string(text, environ) ==
  [i \in DOMAIN text |->
     IF IsEnvRef(text[i]) /\ IsSet(environ, text[i].var)
     THEN [lit |-> getenv(environ, text[i].var)]
     ELSE text[i]]

\* the fields of a rule document that hold strings with references
TemplatedFields == {"url"}

\* _resolve_env_vars over the document of a rule file
_resolve_env_vars(data, environ) ==
  [k \in DOMAIN data |->
     IF k \in TemplatedFields THEN resolve_string(data[k], environ) ELSE data[k]]

\* the fields AlertRule requires; enabled has a default
RequiredFields == {"name", "interval", "condition", "actions", "throttle"}

\* model_validate taking any document for a rule
model_validate_lenient(data) == <<data>>

\* AlertRule.model_validate: <<rule>>, or <<>> when a required field is missing
model_validate(data) ==
  IF RequiredFields \subseteq DOMAIN data
  THEN IF "enabled" \in DOMAIN data
       THEN <<data>>
       ELSE <<[k \in DOMAIN data \cup {"enabled"} |->
                 IF k = "enabled" THEN TRUE ELSE data[k]]>>
  ELSE <<>>

\* load_rule: <<rule>>, or <<>> when json.load or model_validate raises
load_rule(file, environ) ==
  IF ~file.json
  THEN <<>>
  ELSE model_validate(_resolve_env_vars(file.data, environ))

\* the rules of the files that load, in the order of the files
loaded_rules(dir) ==
  LET rs == [i \in DOMAIN dir.files |-> load_rule(dir.files[i], dir.environ)]
      ok == SelectSeq(rs, LAMBDA r : Len(r) = 1)
  IN [k \in DOMAIN ok |-> ok[k][1]]

\* load_all_rules: the table is cleared and, when the directory exists,
\* filled file by file, a file that fails being skipped and a later file
\* replacing an earlier one of the same name
load_all_rules(dir) ==
  IF ~dir.exists
  THEN <<>>
  ELSE LET ld == loaded_rules(dir)
       IN [n \in {ld[i].name : i \in DOMAIN ld} |->
             ld[CHOOSE i \in DOMAIN ld :
                  /\ ld[i].name = n
                  /\ \A j \in DOMAIN ld : ld[j].name = n => j =< i]]

\* RuleLoader.reload_rules leaving the table as self._rules.clear() left it
loader_reload_rules_cleared(dir) == <<>>

\* RuleLoader.reload_rules dropping the rules that are switched off
loader_reload_rules_enabled_only(dir) ==
  [n \in {m \in DOMAIN load_all_rules(dir) : load_all_rules(dir)[m].enabled} |->
     load_all_rules(dir)[n]]

\* RuleLoader.reload_rules
loader_reload_rules(dir) == load_all_rules(dir)

get_enabled_rules(rs) == {n \in DOMAIN rs : rs[n].enabled}

\* the enabled rules in the order of the table (first insertion of each name)
IsFirstOfName(ld, i) == \A j \in 1..(i - 1) : ld[j].name # ld[i].name

enabled_in_order(dir) ==
  LET rs == load_all_rules(dir)
      ld == IF dir.exists THEN loaded_rules(dir) ELSE <<>>
      firsts == SelectSeq([i \in DOMAIN ld |-> [i |-> i, name |-> ld[i].name]],
                          LAMBDA e : IsFirstOfName(ld, e.i) /\ rs[e.name].enabled)
  IN [k \in DOMAIN firsts |-> rs[firsts[k].name]]

\* the loop "for rule in rules: self._schedule_rule(rule)" of start and of
\* reload_rules, from the i-th enabled rule on: add_job(replace_existing)
\* for each rule until _parse_interval raises, which ends the loop and the
\* caller
RECURSIVE schedule_rules(_, _, _)
schedule_rules(enabled, i, js) ==
  IF i > Len(enabled)
  THEN [jobs |-> js, raised |-> FALSE]
  ELSE IF ~_parse_interval_ok(enabled[i].interval)
       THEN [jobs |-> js, raised |-> TRUE]
       ELSE schedule_rules(enabled, i + 1,
                           (enabled[i].name :> enabled[i]) @@ js)

(***************************************************************************)
(* Alert events and the per-tick aggregation of notification results.      *)
(***************************************************************************)
AlertEvent(rule_name, event_type, timestamp) ==
  [rule_name |-> rule_name, event_type |-> event_type,
   timestamp |-> isoformat(timestamp), value |-> NoValue, threshold |-> 0,
   operator |-> "", condition_met |-> FALSE, notification_sent |-> FALSE,
   notification_status |-> "null", notification_results |-> <<>>,
   error |-> ""]

successes(results) == Cardinality({i \in 1..Len(results) : results[i].success})

notification_sent(results) == Len(results) > 0 /\ successes(results) > 0

\* notification_status taken from the last action alone
notification_status_of_last(results) ==
  IF Len(results) = 0 THEN "null"
  ELSE IF results[Len(results)].success THEN "success"
  ELSE "failed"

notification_status(results) ==
  IF Len(results) = 0 THEN "null"
  ELSE IF successes(results) = Len(results) THEN "success"
  ELSE IF successes(results) > 0 THEN "partial"
  ELSE "failed"

event_type_of(tr) == IF tr.new_state = FIRING THEN "fired" ELSE "resolved"

\* ErrorEvent dropping the message
ErrorEvent_without_message(rule, now, error) ==
  [AlertEvent(rule.name, "error", now) EXCEPT
     !.threshold = rule.condition.value,
     !.operator = rule.condition.operator]

ErrorEvent(rule, now, error) ==
  [AlertEvent(rule.name, "error", now) EXCEPT
     !.threshold = rule.condition.value,
     !.operator = rule.condition.operator,
     !.error = error]

\* TransitionEvent built before the results of the actions are in
TransitionEvent_before_results(rule, now, er, tr, results) ==
  [AlertEvent(rule.name, event_type_of(tr), now) EXCEPT
     !.value = er.actual_value,
     !.threshold = er.threshold,
     !.operator = er.operator,
     !.condition_met = er.condition_met]

TransitionEvent(rule, now, er, tr, results) ==
  [AlertEvent(rule.name, event_type_of(tr), now) EXCEPT
     !.value = er.actual_value,
     !.threshold = er.threshold,
     !.operator = er.operator,
     !.condition_met = er.condition_met,
     !.notification_sent = notification_sent(results),
     !.notification_status = notification_status(results),
     !.notification_results = results]

\* writes_history looking at the state change alone
writes_history_on_change_only(tr) == tr.changed

writes_history(tr) == tr.changed \/ tr.should_notify

NotificationEntry(success) ==
  [action |-> "webhook", success |-> success,
   status |-> IF success THEN "success" ELSE "failed"]

(***************************************************************************)
(* State.                                                                  *)
(***************************************************************************)
VARIABLES
  clock,       \* wall clock, datetime.now(timezone.utc)
  rules,       \* RuleLoader._rules: name -> rule
  jobs,        \* APScheduler job store: name -> rule captured in the job's args
  running,     \* AlertScheduler._running
  states,      \* StateManager._states: name -> AlertStateRecord (lazily filled)
  stateIndex,  \* documents of the state index, keyed by rule name
  history,     \* documents of the history index, in write order
  tasks,       \* coroutine frames: one job slot per rule, one per trigger request
  ticks,       \* runs of _check_alert started so far
  lifespan,    \* startup | serving (app.state.scheduler is set) | failed
  last         \* what the step just taken did: calls made and values returned

vars == <<clock, rules, jobs, running, states, stateIndex, history, tasks, ticks,
          lifespan, last>>

NoRule ==
  [name |-> "", enabled |-> FALSE, interval |-> <<>>,
   condition |-> [operator |-> "", value |-> 0],
   actions |-> <<>>,
   throttle |-> [value |-> 0, unit |-> ""]]

NoTransition ==
  [previous_state |-> OK, new_state |-> OK, changed |-> FALSE,
   should_notify |-> FALSE]

\* A coroutine frame of _check_alert (and of trigger_manual around it): the
\* locals that are live across an await.
\*   pc   idle | http (awaiting client.request) | sleep (awaiting asyncio.sleep)
IdleFrame ==
  [pc |-> "idle", rule |-> NoRule, now |-> NoTime,
   er |-> evaluate(NoRule, 0), tr |-> NoTransition,
   idx |-> 0, attempt |-> 0, wake |-> NoTime, results |-> <<>>]

\* The observation of one step.
\*   op        init | startup | stop | stop_noop | reload | advance | tick |
\*             resume | unknown_rule
\*   raised    the operation ended by an exception
\*   dir       <<>> or <<d>>: what the load of this step found on disk
\*   loaded    <<>> or <<m>>: the rule map a direct call of the loader found
\*   args      <<>> or <<a>>: the arguments of a direct call of a function
\*   result    <<>> or <<v>>: what that call returned
\*   task      the coroutine that ran
\*   rule      the rule it ran for
\*   now       the tick's timestamp (first statement of _check_alert)
\*   query     none | failed | ok: outcome of the search issued in this step
\*   qerror    the message of the exception the search raised
\*   before    the rule's record as the step found it
\*   unow      the clock read of update_state
\*   er, tr    the evaluation result and the transition update_state returned
\*   persist   none | written | failed: outcome of the state write
\*   load      none | loaded | failed: outcome of the search of _load_states
\*   requests  webhook HTTP requests issued in this step
\*   outcome   none | ok | status | raise: how the awaited request ended
\*   attempt   the attempt of send that request was (0: none)
\*   sent      <<>> or <<r>>: the NotificationResult send returned in this step
\*   finished  the tick ran to its end in this step
\*   results   notification_results at the end of the tick
\*   event     <<>> or <<e>>: the event handed to record_event
\*   hist      none | written | failed: outcome of the history write
\*   ret       what trigger_manual returned: <<>> or <<event>>
NoLast ==
  [op |-> "init", raised |-> FALSE, dir |-> <<>>, loaded |-> <<>>, args |-> <<>>,
   result |-> <<>>, task |-> "", rule |-> NoRule,
   now |-> NoTime, query |-> "none", qerror |-> "", before |-> AlertStateRecord(""),
   unow |-> NoTime,
   er |-> evaluate(NoRule, 0), tr |-> NoTransition, persist |-> "none",
   load |-> "none", requests |-> 0, outcome |-> "none", attempt |-> 0, sent |-> <<>>,
   finished |-> FALSE, results |-> <<>>, event |-> <<>>,
   hist |-> "none", ret |-> <<>>]

Init ==
  /\ clock = 0
  /\ rules = <<>>
  /\ jobs = <<>>
  /\ running = FALSE
  /\ states = <<>>
  /\ stateIndex = <<>>
  /\ history = <<>>
  /\ tasks = [t \in TaskIds |-> IdleFrame]
  /\ ticks = 0
  /\ lifespan = "startup"
  /\ last = NoLast

\* the state in which a function is about to be called with arguments args
CallPending(args) ==
  /\ clock = 0
  /\ rules = <<>>
  /\ jobs = <<>>
  /\ running = FALSE
  /\ states = <<>>
  /\ stateIndex = <<>>
  /\ history = <<>>
  /\ tasks = [t \in TaskIds |-> IdleFrame]
  /\ ticks = 0
  /\ lifespan = "startup"
  /\ last = [NoLast EXCEPT !.op = "call", !.args = <<args>>]

\* the call returns: nothing but the observation changes
Returns(op, value) ==
  /\ last.op = "call"
  /\ last' = [last EXCEPT !.op = op, !.result = <<value>>]
  /\ UNCHANGED <<clock, rules, jobs, running, states, stateIndex, history, tasks,
                 ticks, lifespan>>

(***************************************************************************)
(* Template renderer.                                                      *)
(*                                                                         *)
(* A string is a sequence of tokens: "{{alert." (the opening of            *)
(* TEMPLATE_PATTERN), "}" and other characters.  A template is a tagged    *)
(* value: [str], [num], [none], [list] of templates or [dict], a sequence  *)
(* of entries [key, v].  A context is a set of bindings [key, val] whose   *)
(* values are [cstr], [cnum], [cnone] or [cdict], a nested context.        *)
(***************************************************************************)
OPEN == "{{alert."
CLOSE == "}"

Str(tokens) == [str |-> tokens]
Num(n) == [num |-> n]
None == [none |-> TRUE]
List(items) == [list |-> items]
Dict(entries) == [dict |-> entries]

IsStr(v) == "str" \in DOMAIN v
IsList(v) == "list" \in DOMAIN v
IsDict(v) == "dict" \in DOMAIN v

CStr(tokens) == [cstr |-> tokens]
CNum(n) == [cnum |-> n]
CNone == [cnone |-> TRUE]
CDict(bindings) == [cdict |-> bindings]

\* str(value) of the replacer
str(value) ==
  CASE "cstr" \in DOMAIN value -> value.cstr
    [] "cnum" \in DOMAIN value -> <<ToString(value.cnum)>>
    [] "cdict" \in DOMAIN value -> <<"{", "...", CLOSE>>

\* path.split(".")
RECURSIVE split(_)
split(path) ==
  IF \A i \in DOMAIN path : path[i] # "."
  THEN <<path>>
  ELSE LET d == CHOOSE i \in DOMAIN path :
                  path[i] = "." /\ \A j \in 1..(i - 1) : path[j] # "."
       IN <<SubSeq(path, 1, d - 1)>> \o split(SubSeq(path, d + 1, Len(path)))

\* _resolve_path: the loop over the parts, from the value reached so far
RECURSIVE resolve_parts(_, _)
resolve_parts(parts, current) ==
  IF parts = <<>>
  THEN current
  ELSE IF "cdict" \in DOMAIN current
          /\ \E b \in current.cdict : b.key = Head(parts)
       THEN resolve_parts(Tail(parts),
              (CHOOSE b \in current.cdict : b.key = Head(parts)).val)
       ELSE CNone

_resolve_path(path, context) == resolve_parts(split(path), CDict(context))

\* the end of the longest run of [^}] that starts after position i
RunEnd(text, i) ==
  CHOOSE k \in i..Len(text) :
    /\ \A j \in (i + 1)..k : text[j] # CLOSE
    /\ (k = Len(text) \/ text[k + 1] = CLOSE)

\* TEMPLATE_PATTERN matches at position i
MatchAt(text, i) ==
  /\ text[i] = OPEN
  /\ RunEnd(text, i) > i
  /\ RunEnd(text, i) + 2 =< Len(text)
  /\ text[RunEnd(text, i) + 1] = CLOSE
  /\ text[RunEnd(text, i) + 2] = CLOSE

\* replacer rendering a path that does not resolve as the empty string
replacer_blanking(matched, path, context) ==
  IF "cnone" \in DOMAIN _resolve_path(path, context)
  THEN <<>>
  ELSE str(_resolve_path(path, context))

\* replacer: str(value), or the match itself when the path gives None
replacer(matched, path, context) ==
  IF "cnone" \in DOMAIN _resolve_path(path, context)
  THEN matched
  ELSE str(_resolve_path(path, context))

\* TEMPLATE_PATTERN.sub(replacer, text), from position i on: the leftmost
\* match is replaced and the scan goes on behind it
RECURSIVE sub_from(_, _, _)
sub_from(text, i, context) ==
  IF i > Len(text)
  THEN <<>>
  ELSE IF MatchAt(text, i)
       THEN LET k == RunEnd(text, i)
            IN replacer(SubSeq(text, i, k + 2), SubSeq(text, i + 1, k), context)
                 \o sub_from(text, k + 3, context)
       ELSE <<text[i]>> \o sub_from(text, i + 1, context)

_render_string(text, context) == sub_from(text, 1, context)

RECURSIVE render(_, _)
render(template, context) ==
  CASE IsStr(template) -> Str(_render_string(template.str, context))
    [] IsDict(template) ->
         Dict([i \in DOMAIN template.dict |->
                 [key |-> template.dict[i].key,
                  v |-> render(template.dict[i].v, context)]])
    [] IsList(template) ->
         List([i \in DOMAIN template.list |-> render(template.list[i], context)])
    [] OTHER -> template

\* The inputs of the renderer.
Alphabet == {OPEN, CLOSE, "a", "."}

Strings == {Str(t) : t \in SeqsUpTo(Alphabet, MaxLen)}

Placeholder(path) == Str(<<OPEN>> \o path \o <<CLOSE, CLOSE>>)

Leaves ==
  {Str(<<"a">>), Placeholder(<<"a">>), Placeholder(<<"a", ".", "a">>),
   Placeholder(<<".">>), Num(42), None}

Lists == {List(q) : q \in SeqsUpTo(Leaves, 2)}

Dicts ==
  {Dict(<<[key |-> "text", v |-> x]>>) : x \in Leaves \cup Lists} \cup
  {Dict(<<[key |-> "text", v |-> x], [key |-> "blocks", v |-> y]>>) :
     x \in Leaves, y \in Lists}

Templates == Strings \cup {Num(42), None} \cup Lists \cup Dicts

Contexts ==
  {{},
   {[key |-> <<"a">>, val |-> CStr(<<"v">>)]},
   {[key |-> <<"a">>, val |-> CNum(150)]},
   {[key |-> <<"a">>, val |-> CNone]},
   {[key |-> <<"a">>, val |-> CDict({[key |-> <<"a">>, val |-> CStr(<<"v">>)]})]}}

InitRender ==
  \E template \in Templates, context \in Contexts :
    CallPending([template |-> template, context |-> context])

CallRender ==
  Returns("render", render(last.args[1].template, last.args[1].context))

SpecRender == InitRender /\ [][CallRender]_vars

(***************************************************************************)
(* Query executor: the value extracted from a search response.             *)
(*                                                                         *)
(* A JSON number is [num |-> n], a JSON null is [null |-> TRUE]; a JSON    *)
(* object is a record of the keys it has, except the object under          *)
(* "values", whose keys are data: a set of bindings [key, val].            *)
(***************************************************************************)
Number(n) == [num |-> n]
Null == [null |-> TRUE]

IsObject(v) == "num" \notin DOMAIN v /\ "null" \notin DOMAIN v

\* float(x): <<number>>, or <<>> when it raises TypeError
float(v) == IF "num" \in DOMAIN v THEN <<v.num>> ELSE <<>>

\* ".".join(parts)
RECURSIVE join(_)
join(parts) ==
  IF Len(parts) = 0 THEN <<>>
  ELSE IF Len(parts) = 1 THEN parts[1]
  ELSE parts[1] \o <<".">> \o join(Tail(parts))

\* _extract_count_result
_extract_count_result(response) ==
  IF "hits" \notin DOMAIN response \/ "total" \notin DOMAIN response.hits
  THEN <<0>>
  ELSE LET total == response.hits.total
       IN IF IsObject(total)
          THEN IF "value" \in DOMAIN total THEN float(total.value) ELSE <<0>>
          ELSE float(total)

\* aggs["values"].get(key, 0)
values_get(values, key) ==
  IF \E b \in values : b.key = key
  THEN (CHOOSE b \in values : b.key = key).val
  ELSE Number(0)

\* _extract_aggregation_result
_extract_aggregation_result(response, agg_field) ==
  IF "aggregations" \notin DOMAIN response
     \/ "alert_agg" \notin DOMAIN response.aggregations
  THEN <<0>>
  ELSE LET aggs == response.aggregations.alert_agg
           parts == split(agg_field)
       IN IF "values" \in DOMAIN aggs /\ Len(parts) >= 2
          THEN float(values_get(aggs.values, join(Tail(parts))))
          ELSE IF "value" \in DOMAIN aggs
               THEN float(aggs.value)
               ELSE <<0>>

QueryResult(success, value) == [success |-> success, value |-> value]

\* execute, once client.search has returned the response: the extraction and
\* the except branch around it
execute(rule, response) ==
  LET extracted == IF rule.aggregation /\ rule.aggregation_field # <<>>
                   THEN _extract_aggregation_result(response, rule.aggregation_field)
                   ELSE _extract_count_result(response)
  IN IF extracted = <<>>
     THEN QueryResult(FALSE, 0)
     ELSE QueryResult(TRUE, extracted[1])

\* The inputs of the executor: the query part of a rule, and a response.
QueryRules ==
  {[aggregation |-> FALSE, aggregation_field |-> <<>>],
   [aggregation |-> TRUE, aggregation_field |-> <<>>],
   [aggregation |-> TRUE, aggregation_field |-> <<"avg">>],
   [aggregation |-> TRUE,
    aggregation_field |-> <<"percentiles", ".", "95", ".", "0">>]}

Key95 == <<"95", ".", "0">>

HitsShapes ==
  {[total |-> Number(7)],
   [total |-> [value |-> Number(7), relation |-> "eq"]],
   [total |-> [relation |-> "eq"]],
   [max_score |-> Null]}

ValuesShapes ==
  {{[key |-> Key95, val |-> Number(1250)]},
   {[key |-> Key95, val |-> Null]},
   {[key |-> <<"50", ".", "0">>, val |-> Number(3)]}}

AggShapes ==
  {[doc_count |-> Number(3)],
   [value |-> Number(456)],
   [value |-> Null]} \cup
  {[values |-> v] : v \in ValuesShapes} \cup
  {[values |-> v, value |-> Number(456)] : v \in ValuesShapes}

Responses ==
  {[took |-> 1]} \cup
  {[took |-> 1, hits |-> h] : h \in HitsShapes} \cup
  {[took |-> 1, hits |-> h, aggregations |-> [alert_agg |-> a]] :
     h \in HitsShapes, a \in AggShapes} \cup
  {[took |-> 1, hits |-> h, aggregations |-> [other_agg |-> [value |-> Number(1)]]] :
     h \in HitsShapes}

InitExecute ==
  \E rule \in QueryRules, response \in Responses :
    CallPending([rule |-> rule, response |-> response])

CallExecute ==
  Returns("execute", execute(last.args[1].rule, last.args[1].response))

SpecExecute == InitExecute /\ [][CallExecute]_vars

(***************************************************************************)
(* Configuration: validate_settings, run when app.config is imported.      *)
(***************************************************************************)
SENTINEL == "CHANGE_ME_IN_PRODUCTION"

\* the settings the validation reads, as the environment variables give them
SettingsSpace ==
  [environment : {"development", "production", "staging", "test"},
   auth_enabled : BOOLEAN,
   secret_key : {SENTINEL, "s3cret"},
   debug : BOOLEAN,
   opensearch_scheme : {"http", "https"}]

\* validate_settings: the errors and warnings it collects; it raises
\* ValueError when there is an error
validate_settings(settings) ==
  LET prod == settings.environment \in {"production", "staging"}
      errors == IF prod /\ settings.secret_key = SENTINEL
                THEN {"API_SECRET_KEY must be changed in production/staging"}
                ELSE {}
      warnings ==
        (IF prod /\ settings.debug
         THEN {"DEBUG is enabled in production (security risk)"} ELSE {}) \cup
        (IF prod /\ settings.opensearch_scheme = "http"
         THEN {"Using HTTP for OpenSearch in production (use HTTPS)"} ELSE {})
  IN [raised |-> errors # {}, errors |-> errors, warnings |-> warnings]

InitSettings == \E settings \in SettingsSpace : CallPending(settings)

CallValidateSettings ==
  Returns("validate_settings", validate_settings(last.args[1]))

SpecSettings == InitSettings /\ [][CallValidateSettings]_vars

(***************************************************************************)
(* State manager operations on the map.                                    *)
(***************************************************************************)
\* get_state rebuilding the map around the record it returns
get_state_alone(sts, rule_name) ==
  (rule_name :> (IF rule_name \in DOMAIN sts THEN sts[rule_name]
                 ELSE AlertStateRecord(rule_name)))

\* get_state: the record of the rule, created with defaults when absent
get_state(sts, rule_name) ==
  IF rule_name \in DOMAIN sts THEN sts ELSE (rule_name :> AlertStateRecord(rule_name)) @@ sts

\* the record get_state would return, without the side effect
record_of(sts, rule_name) ==
  IF rule_name \in DOMAIN sts THEN sts[rule_name] ELSE AlertStateRecord(rule_name)

\* _persist_state creating the document once and never overwriting it
_persist_state_create_only(index, rule_name, rec, ok) ==
  IF ok /\ rule_name \notin DOMAIN index
  THEN (rule_name :> to_dict(rec)) @@ index
  ELSE index

\* _persist_state: index the document under the rule name; a failure is logged
_persist_state(index, rule_name, rec, ok) ==
  IF ok
  THEN [n \in DOMAIN index \cup {rule_name} |->
          IF n = rule_name THEN to_dict(rec) ELSE index[n]]
  ELSE index

\* _load_states: every stored document becomes the in-memory record
_load_states(sts, index, ok) ==
  IF ok
  THEN [n \in DOMAIN sts \cup DOMAIN index |->
          IF n \in DOMAIN index THEN from_dict(index[n]) ELSE sts[n]]
  ELSE sts

\* record_event: append the document; a failure is logged
record_event(h, event, ok) == IF ok THEN Append(h, event) ELSE h

Outcome(ok) == IF ok THEN "written" ELSE "failed"

(***************************************************************************)
(* The per-tick algorithm, _check_alert, and trigger_manual around it.     *)
(***************************************************************************)
IsManual(t) == t \in ManualIds

\* ManualEvent leaving out what the record holds
ManualEvent_without_state(rule_name, state, now) ==
  AlertEvent(rule_name, "manual_trigger", now)

\* trigger_manual, after _check_alert returned: the event is built from the
\* record as it is at that moment
ManualEvent(rule_name, state, now) ==
  [AlertEvent(rule_name, "manual_trigger", now) EXCEPT
     !.value = state.current_value,
     !.threshold = state.threshold,
     !.condition_met = (state.state = FIRING)]

\* The end of a tick: step 5 (history) and, for a manual trigger, the return.
\* f: the frame with its locals; sts: the record map as this step leaves it;
\* tnow: the clock as this step leaves it; l: the observation so far.
Complete(t, f, results, sts, hok, tnow, l) ==
  LET writes == writes_history(f.tr)
      event == TransitionEvent(f.rule, f.now, f.er, f.tr, results)
      stsR == IF IsManual(t) THEN get_state(sts, f.rule.name) ELSE sts
  IN /\ (~writes => hok)
     /\ history' = IF writes THEN record_event(history, event, hok) ELSE history
     /\ states' = stsR
     /\ tasks' = [tasks EXCEPT ![t] = IdleFrame]
     /\ last' = [l EXCEPT
          !.finished = TRUE, !.results = results,
          !.event = IF writes THEN <<event>> ELSE <<>>,
          !.hist = IF writes THEN Outcome(hok) ELSE "none",
          !.ret = IF IsManual(t)
                  THEN <<ManualEvent(f.rule.name, stsR[f.rule.name], tnow)>>
                  ELSE <<>>]

\* Step 1 failed: one error event, then return.
QueryFailed(t, rule, now, tq, err, hok) ==
  LET stsR == IF IsManual(t) THEN get_state(states, rule.name) ELSE states
      event == ErrorEvent(rule, now, err)
  IN /\ clock' = tq
     /\ history' = record_event(history, event, hok)
     /\ states' = stsR
     /\ tasks' = [tasks EXCEPT ![t] = IdleFrame]
     /\ last' = [NoLast EXCEPT
          !.op = "tick", !.task = t, !.rule = rule, !.now = now,
          !.query = "failed", !.qerror = err,
          !.before = record_of(states, rule.name),
          !.finished = TRUE, !.event = <<event>>,
          !.hist = Outcome(hok),
          !.ret = IF IsManual(t)
                  THEN <<ManualEvent(rule.name, stsR[rule.name], tq)>>
                  ELSE <<>>]
     /\ UNCHANGED <<rules, jobs, running, stateIndex, lifespan>>

\* Steps 2 to 5 up to the first await: evaluate, update and persist the state,
\* then either issue the first webhook request or finish the tick.
QuerySucceeded(t, rule, now, tq, v, pok, hok) ==
  LET er == evaluate(rule, v)
      sts0 == get_state(states, rule.name)
      u == update_state(sts0[rule.name], rule, er.condition_met, er.actual_value, tq)
      sts1 == [sts0 EXCEPT ![rule.name] = u.rec]
      f == [IdleFrame EXCEPT !.rule = rule, !.now = now, !.er = er, !.tr = u.tr]
      l == [NoLast EXCEPT
              !.op = "tick", !.task = t, !.rule = rule, !.now = now,
              !.query = "ok", !.before = sts0[rule.name], !.unow = tq,
              !.er = er, !.tr = u.tr, !.persist = Outcome(pok)]
  IN /\ tq + 1 <= MaxTime
     /\ clock' = tq + 1
     /\ stateIndex' = _persist_state(stateIndex, rule.name, u.rec, pok)
     /\ IF u.tr.should_notify /\ Len(rule.actions) > 0
        THEN /\ hok
             /\ states' = sts1
             /\ tasks' = [tasks EXCEPT ![t] =
                  [f EXCEPT !.pc = "http", !.idx = 1, !.attempt = 1]]
             /\ last' = [l EXCEPT !.requests = 1]
             /\ history' = history
        ELSE Complete(t, f, <<>>, sts1, hok, tq + 1, l)
     /\ UNCHANGED <<rules, jobs, running, lifespan>>

_check_alert(t, rule) ==
  \E dq \in 0..MaxQueryDelay :
    /\ ticks < MaxTicks
    /\ ticks' = ticks + 1
    /\ clock + dq <= MaxTime
    /\ \/ \E err \in QueryErrors, hok \in BOOLEAN :
            QueryFailed(t, rule, clock, clock + dq, err, hok)
       \/ \E v \in QueryValues, pok \in BOOLEAN, hok \in BOOLEAN :
            QuerySucceeded(t, rule, clock, clock + dq, v, pok, hok)

(***************************************************************************)
(* Webhook notifier: the resumptions of a tick suspended in send.          *)
(***************************************************************************)
Resumed(t) ==
  [NoLast EXCEPT !.op = "resume", !.task = t, !.rule = tasks[t].rule,
                 !.now = tasks[t].now, !.er = tasks[t].er, !.tr = tasks[t].tr]

NotificationResult(success, attempts) ==
  [success |-> success, attempts |-> attempts]

\* has_next_attempt running the loop once more
has_next_attempt_once_more(attempt) == attempt =< Retries

\* for attempt in range(1, self.retries + 1): an iteration follows this one
has_next_attempt(attempt) == attempt < Retries

\* the except branch: if attempt < self.retries, sleep before the next attempt
sleeps_before_retry(attempt) == attempt < Retries

backoff(attempt) == 2 ^ (attempt - 1)

\* send returned for the current action: collect the result, go on with the
\* next action or finish the tick
ActionDone(t, result, hok, l) ==
  LET f == tasks[t]
      results == Append(f.results, NotificationEntry(result.success))
      ls == [l EXCEPT !.sent = <<result>>]
  IN IF f.idx < Len(f.rule.actions)
     THEN /\ hok
          /\ tasks' = [tasks EXCEPT ![t] =
               [f EXCEPT !.results = results, !.idx = f.idx + 1, !.attempt = 1]]
          /\ last' = [ls EXCEPT !.requests = 1]
          /\ UNCHANGED <<history, states>>
     ELSE Complete(t, f, results, states, hok, clock, ls)

\* the next iteration of the loop issues its request at once
NextAttempt(t, hok, l) ==
  /\ hok
  /\ tasks' = [tasks EXCEPT ![t].attempt = tasks[t].attempt + 1]
  /\ last' = [l EXCEPT !.requests = 1]
  /\ UNCHANGED <<history, states>>

\* client.request returned or raised
HttpResponse(t) ==
  /\ tasks[t].pc = "http"
  /\ \E outcome \in {"ok", "status", "raise"}, hok \in BOOLEAN :
       LET f == tasks[t]
           l == [Resumed(t) EXCEPT !.outcome = outcome, !.attempt = f.attempt]
           exhausted == NotificationResult(FALSE, Retries)
       IN CASE outcome = "ok" ->
                 ActionDone(t, NotificationResult(TRUE, f.attempt), hok, l)
            [] outcome = "status" ->
                 IF has_next_attempt(f.attempt)
                 THEN NextAttempt(t, hok, l)
                 ELSE ActionDone(t, exhausted, hok, l)
            [] outcome = "raise" ->
                 IF sleeps_before_retry(f.attempt)
                 THEN /\ hok
                      /\ tasks' = [tasks EXCEPT ![t].pc = "sleep",
                                     ![t].wake = clock + backoff(f.attempt)]
                      /\ last' = l
                      /\ UNCHANGED <<history, states>>
                 ELSE IF has_next_attempt(f.attempt)
                      THEN NextAttempt(t, hok, l)
                      ELSE ActionDone(t, exhausted, hok, l)
  /\ UNCHANGED <<clock, rules, jobs, running, stateIndex, ticks, lifespan>>

\* asyncio.sleep(backoff) is over: the next attempt is issued
BackoffOver(t) ==
  /\ tasks[t].pc = "sleep"
  /\ clock >= tasks[t].wake
  /\ tasks' = [tasks EXCEPT ![t].pc = "http", ![t].attempt = tasks[t].attempt + 1,
                 ![t].wake = NoTime]
  /\ last' = [Resumed(t) EXCEPT !.requests = 1]
  /\ UNCHANGED <<clock, rules, jobs, running, states, stateIndex, history, ticks,
                 lifespan>>

(***************************************************************************)
(* Scheduler and management operations.                                    *)
(***************************************************************************)
\* lifespan startup: state_manager.initialize(), then scheduler.start().  An
\* exception of start ends the lifespan before app.state.scheduler is set:
\* the application does not come up.
Startup(dir) ==
  /\ lifespan = "startup"
  /\ \E lok \in BOOLEAN :
       states' = _load_states(states, stateIndex, lok)
  /\ LET s == schedule_rules(enabled_in_order(dir), 1, jobs)
     IN /\ rules' = load_all_rules(dir)
        /\ jobs' = s.jobs
        /\ running' = ~s.raised
        /\ lifespan' = IF s.raised THEN "failed" ELSE "serving"
        /\ last' = [NoLast EXCEPT !.op = "startup", !.raised = s.raised,
                                   !.dir = <<dir>>]
  /\ UNCHANGED <<clock, stateIndex, history, tasks, ticks>>

\* a scheduled run of the job of rule r; the job store runs one instance of
\* a job at a time
SchedTick(r) ==
  /\ running
  /\ r \in DOMAIN jobs
  /\ tasks[r].pc = "idle"
  /\ _check_alert(r, jobs[r])

\* POST /rules/{rule_name}/trigger
trigger_manual(m, rule_name) ==
  /\ lifespan = "serving"
  /\ tasks[m].pc = "idle"
  /\ IF rule_name \in DOMAIN rules
     THEN _check_alert(m, rules[rule_name])
     ELSE /\ last' = [NoLast EXCEPT !.op = "unknown_rule", !.task = m,
                                    !.rule = [NoRule EXCEPT !.name = rule_name]]
          /\ UNCHANGED <<clock, rules, jobs, running, states, stateIndex,
                         history, tasks, ticks, lifespan>>

\* remove_all_jobs leaving the jobs in the store
remove_all_jobs_keeping(js) == js

\* scheduler.remove_all_jobs(): the job store is emptied; runs in flight go on
remove_all_jobs(js) == <<>>

\* the runs of scheduled jobs that are suspended in a delivery
JobsInFlight ==
  {t \in RuleNames : tasks[t].pc \in {"http", "sleep"}}

\* stop(): scheduler.shutdown(wait=False) and _running = False; nothing when
\* the scheduler is not running.  The code of a tick never looks at _running.
\* shutdown(wait=False) has the asyncio executor cancel the tasks of the job
\* runs that are pending: CancelledError is raised at the await the run is
\* suspended in, "except Exception" of send does not catch it, and the run is
\* abandoned there.  A manual trigger is a coroutine of the request handler,
\* no job of the executor: stop() does not reach it.
stop ==
  /\ lifespan = "serving"
  /\ IF running
     THEN /\ running' = FALSE
          /\ tasks' = [t \in TaskIds |->
                        IF t \in JobsInFlight THEN IdleFrame ELSE tasks[t]]
     ELSE UNCHANGED <<running, tasks>>
  /\ last' = [NoLast EXCEPT !.op = IF running THEN "stop" ELSE "stop_noop"]
  /\ UNCHANGED <<clock, rules, jobs, states, stateIndex, history, ticks, lifespan>>

\* POST /rules/reload: reload_rules() removes every job, reloads the rule
\* files and schedules the enabled rules again; runs in flight go on
reload_rules(dir) ==
  /\ lifespan = "serving"
  /\ LET s == schedule_rules(enabled_in_order(dir), 1, remove_all_jobs(jobs))
     IN /\ rules' = loader_reload_rules(dir)
        /\ jobs' = s.jobs
        /\ last' = [NoLast EXCEPT !.op = "reload", !.raised = s.raised,
                                   !.dir = <<dir>>]
  /\ UNCHANGED <<clock, running, states, stateIndex, history, tasks, ticks,
                 lifespan>>

(***************************************************************************)
(* Management API: bearer authentication in front of the two POST routes.  *)
(*                                                                         *)
(* A token is [key, expired, sub, role]: the key it was signed with,       *)
(* whether its exp claim has passed, and the claims "sub" and "role" as    *)
(* <<>> (absent) or <<value>>.  Credentials are <<>> (no Authorization     *)
(* header with the Bearer scheme) or <<token>>.                             *)
(***************************************************************************)
SecretKey == "secret"

Token(key, expired, sub, role) ==
  [key |-> key, expired |-> expired, sub |-> sub, role |-> role]

\* an admin's token, and tokens that differ from it in one respect each
Tokens ==
  {Token(SecretKey, FALSE, <<"alice">>, <<"admin">>),
   Token("other", FALSE, <<"alice">>, <<"admin">>),
   Token(SecretKey, TRUE, <<"alice">>, <<"admin">>),
   Token(SecretKey, FALSE, <<>>, <<"admin">>),
   Token(SecretKey, FALSE, <<"alice">>, <<"viewer">>),
   Token(SecretKey, FALSE, <<"alice">>, <<>>)}

Credentials == {<<>>} \cup {<<t>> : t \in Tokens}

\* jwt.decode(token, key, algorithms): <<payload>>, or <<>> for JWTError
jwt_decode(token, key) ==
  IF token.key = key /\ ~token.expired THEN <<token>> ELSE <<>>

Allowed(user) == [status |-> 200, user |-> user]
HTTPException(status_code) == [status |-> status_code, user |-> <<>>]

\* get_current_user
get_current_user(auth_enabled, credentials) ==
  IF ~auth_enabled THEN Allowed(<<>>)
  ELSE IF credentials = <<>> THEN HTTPException(401)
  ELSE LET payload == jwt_decode(credentials[1], SecretKey)
       IN IF payload = <<>> THEN HTTPException(401)
          ELSE IF payload[1].sub = <<>> THEN HTTPException(401)
          ELSE Allowed(<<[username |-> payload[1].sub[1],
                          role |-> IF payload[1].role = <<>> THEN "viewer"
                                   ELSE payload[1].role[1]]>>)

\* require_admin letting every authenticated user through
require_admin_any_user(auth_enabled, credentials) ==
  get_current_user(auth_enabled, credentials)

\* require_admin, with its dependency get_current_user resolved first
require_admin(auth_enabled, credentials) ==
  LET u == get_current_user(auth_enabled, credentials)
  IN IF u.status # 200 THEN u
     ELSE IF ~auth_enabled THEN Allowed(<<>>)
     ELSE IF u.user = <<>> \/ u.user[1].role # "admin" THEN HTTPException(403)
     ELSE u

\* the requests of the two admin routes: the route, the rule named in the
\* path, the credentials, and settings.auth_enabled as read while the
\* request is served
Requests ==
  {[route |-> "trigger", rule_name |-> n, credentials |-> c, auth_enabled |-> a] :
     n \in TriggerNames, c \in Credentials, a \in BOOLEAN} \cup
  {[route |-> "reload", rule_name |-> "", credentials |-> c, auth_enabled |-> a] :
     c \in Credentials, a \in BOOLEAN}

\* a request reaches the server
Receive(request) ==
  /\ lifespan = "serving"
  /\ last.op # "request"
  /\ last' = [NoLast EXCEPT !.op = "request", !.args = <<request>>]
  /\ UNCHANGED <<clock, rules, jobs, running, states, stateIndex, history, tasks,
                 ticks, lifespan>>

\* the dependency raised: the handler is not called, the response has the
\* status of the exception
Refused(status_code) ==
  /\ last' = [NoLast EXCEPT !.op = "refused", !.args = last.args,
                             !.result = <<status_code>>]
  /\ UNCHANGED <<clock, rules, jobs, running, states, stateIndex, history, tasks,
                 ticks, lifespan>>

\* POST /rules/{rule_name}/trigger, dependencies=[Depends(require_admin)]
trigger_rule(m) ==
  /\ last.op = "request" /\ last.args[1].route = "trigger"
  /\ LET admin == require_admin(last.args[1].auth_enabled, last.args[1].credentials)
     IN IF admin.status = 200
        THEN trigger_manual(m, last.args[1].rule_name)
        ELSE Refused(admin.status)

\* POST /rules/reload, dependencies=[Depends(require_admin)]
post_reload_rules(dir) ==
  /\ last.op = "request" /\ last.args[1].route = "reload"
  /\ LET admin == require_admin(last.args[1].auth_enabled, last.args[1].credentials)
     IN IF admin.status = 200
        THEN reload_rules(dir)
        ELSE Refused(admin.status)

\* get_state called for each name of a set: absent records are created
RECURSIVE get_states(_, _)
get_states(sts, names) ==
  IF names = {} THEN sts
  ELSE LET n == CHOOSE x \in names : TRUE
       IN get_states(get_state(sts, n), names \ {n})

\* GET /rules: one entry per loaded rule, with the state get_state returns
list_rules ==
  /\ lifespan = "serving"
  /\ states' = get_states(states, DOMAIN rules)
  /\ last' = [NoLast EXCEPT
       !.op = "list_rules",
       !.result = <<{[name |-> n, enabled |-> rules[n].enabled,
                      state |-> record_of(states, n).state,
                      last_checked |-> isoformat(record_of(states, n).last_checked)] :
                       n \in DOMAIN rules}>>]
  /\ UNCHANGED <<clock, rules, jobs, running, stateIndex, history, tasks, ticks,
                 lifespan>>

\* GET /rules/{rule_name}/status: 404 for an unknown rule, else the rule and
\* to_dict of the record get_state returns
get_rule_status(rule_name) ==
  /\ lifespan = "serving"
  /\ IF rule_name \in DOMAIN rules
     THEN /\ states' = get_state(states, rule_name)
          /\ last' = [NoLast EXCEPT
               !.op = "get_rule_status", !.rule = rules[rule_name],
               !.result = <<to_dict(record_of(states, rule_name))>>]
     ELSE /\ states' = states
          /\ last' = [NoLast EXCEPT
               !.op = "unknown_rule",
               !.rule = [NoRule EXCEPT !.name = rule_name]]
  /\ UNCHANGED <<clock, rules, jobs, running, stateIndex, history, tasks, ticks,
                 lifespan>>

\* time passes
Advance ==
  /\ clock < MaxTime
  /\ clock' = clock + 1
  /\ last' = [NoLast EXCEPT !.op = "advance"]
  /\ UNCHANGED <<rules, jobs, running, states, stateIndex, history, tasks, ticks,
                 lifespan>>

\* a direct call of StateManager.update_state, as a caller other than the
\* scheduler makes it
CallUpdateState(rule, condition_met, current_value, pok) ==
  LET now == clock
      sts0 == get_state(states, rule.name)
      u == update_state(sts0[rule.name], rule, condition_met, current_value, now)
  IN /\ now + 1 <= MaxTime
     /\ clock' = now + 1
     /\ states' = [sts0 EXCEPT ![rule.name] = u.rec]
     /\ stateIndex' = _persist_state(stateIndex, rule.name, u.rec, pok)
     /\ last' = [NoLast EXCEPT
          !.op = "update_state", !.rule = rule, !.before = sts0[rule.name],
          !.unow = now,
          !.er = [evaluate(rule, current_value) EXCEPT
                    !.condition_met = condition_met],
          !.tr = u.tr, !.persist = Outcome(pok)]
     /\ UNCHANGED <<rules, jobs, running, history, tasks, ticks, lifespan>>

Next ==
  \/ \E dir \in Disk : Startup(dir)
  \/ \E r \in RuleNames : SchedTick(r)
  \/ \E m \in ManualIds, n \in TriggerNames : trigger_manual(m, n)
  \/ \E t \in TaskIds : HttpResponse(t)
  \/ \E t \in TaskIds : BackoffOver(t)
  \/ Advance

Spec == Init /\ [][Next]_vars

\* The engine over rule files with any operator string.
NextOperators ==
  \/ \E dir \in OperatorDirs : Startup(dir)
  \/ \E r \in RuleNames : SchedTick(r)
  \/ \E m \in ManualIds, n \in TriggerNames : trigger_manual(m, n)
  \/ \E t \in TaskIds : HttpResponse(t)
  \/ \E t \in TaskIds : BackoffOver(t)
  \/ Advance

SpecOperators == Init /\ [][NextOperators]_vars

\* The management API with authentication in front of it, over rules that
\* have no actions: every tick ends in the step it starts in.
Rule1Quiet == [Rule1 EXCEPT !.actions = <<>>]
Rule2Quiet == [Rule2 EXCEPT !.actions = <<>>]

QuietDir == Directory(<<RuleFile(Rule1Quiet), RuleFile(Rule2Quiet)>>)
QuietDirEdits == {QuietDir, Directory(<<RuleFile(Rule1Quiet)>>)}

NextAuth ==
  \/ Startup(QuietDir)
  \/ \E request \in Requests : Receive(request)
  \/ \E m \in ManualIds : trigger_rule(m)
  \/ \E dir \in QuietDirEdits : post_reload_rules(dir)
  \/ \E r \in RuleNames : SchedTick(r)
  \/ Advance

SpecAuth == Init /\ [][NextAuth]_vars

\* The service started again: the state index holds, for each rule, the
\* document an earlier run of the service wrote after one evaluation or
\* after two within the same second, and the new process starts after them
\* with an empty map.
RestartTime == 1

Evaluated(rule, rec, v, now) ==
  update_state(rec, rule, evaluate(rule, v).condition_met, v, now).rec

StoredRecords(rule) ==
  LET once == {Evaluated(rule, AlertStateRecord(rule.name), v, RestartTime - 1) :
                 v \in QueryValues}
  IN once \cup {Evaluated(rule, rec, v, RestartTime - 1) :
                  rec \in once, v \in QueryValues}

StoredIndexes ==
  {_persist_state(_persist_state(<<>>, Rule1.name, rec1, TRUE),
                  Rule2.name, rec2, TRUE) :
     rec1 \in StoredRecords(Rule1), rec2 \in StoredRecords(Rule2)}

InitRestarted ==
  /\ clock = RestartTime
  /\ rules = <<>>
  /\ jobs = <<>>
  /\ running = FALSE
  /\ states = <<>>
  /\ stateIndex \in StoredIndexes
  /\ history = <<>>
  /\ tasks = [t \in TaskIds |-> IdleFrame]
  /\ ticks = 0
  /\ lifespan = "startup"
  /\ last = NoLast

NextRestarted ==
  \/ Startup(RulesDir)
  \/ \E r \in RuleNames : SchedTick(r)
  \/ \E m \in ManualIds, n \in TriggerNames : trigger_manual(m, n)
  \/ \E t \in TaskIds : HttpResponse(t)
  \/ \E t \in TaskIds : BackoffOver(t)
  \/ Advance

SpecRestarted == InitRestarted /\ [][NextRestarted]_vars

\* The engine with the read-only routes of the management API.
NextManage ==
  \/ Next
  \/ list_rules
  \/ \E n \in TriggerNames : get_rule_status(n)

SpecManage == Init /\ [][NextManage]_vars

\* The state manager on its own, driven by any sequence of update_state calls.
NextSM ==
  \/ \E i \in DOMAIN AllRules, met \in BOOLEAN, v \in QueryValues,
        pok \in BOOLEAN :
       CallUpdateState(AllRules[i], met, v, pok)
  \/ Advance

SpecSM == Init /\ [][NextSM]_vars

\* a restart of the service: initialize() of a new StateManager, whose map
\* is empty, on the state index the old process left
initialize ==
  /\ \E lok \in BOOLEAN :
       /\ states' = _load_states(<<>>, stateIndex, lok)
       /\ last' = [NoLast EXCEPT !.op = "initialize",
                                  !.load = IF lok THEN "loaded" ELSE "failed"]
  /\ UNCHANGED <<clock, rules, jobs, running, stateIndex, history, tasks, ticks,
                 lifespan>>

\* a call of RuleLoader.load_all_rules on what is on disk
CallLoadAll(dir) ==
  /\ rules' = load_all_rules(dir)
  /\ last' = [NoLast EXCEPT !.op = "load_all_rules", !.dir = <<dir>>,
                             !.loaded = <<rules>>]
  /\ UNCHANGED <<clock, jobs, running, states, stateIndex, history, tasks, ticks,
                 lifespan>>

\* a call of RuleLoader.reload_rules on what is on disk
CallLoaderReload(dir) ==
  /\ rules' = loader_reload_rules(dir)
  /\ last' = [NoLast EXCEPT !.op = "loader_reload_rules", !.dir = <<dir>>,
                             !.loaded = <<rules>>]
  /\ UNCHANGED <<clock, jobs, running, states, stateIndex, history, tasks, ticks,
                 lifespan>>

\* The rule loader on its own, called on any sequence of directory contents.
NextLoader ==
  \/ \E dir \in LoaderDirs : CallLoadAll(dir)
  \/ \E dir \in LoaderDirs : CallLoaderReload(dir)

SpecLoader == Init /\ [][NextLoader]_vars

\* The state manager across restarts of the service.
NextRestart ==
  \/ NextSM
  \/ initialize

SpecRestart == Init /\ [][NextRestart]_vars

\* The state manager in the long run: the map holds any records an earlier
\* run left, and update_state is called for ever. A call takes less than a
\* unit of the clock; MaxFires caps the counter of a rule that keeps firing.
\* The records of the rules are independent of each other: one rule is
\* evaluated.
MaxFires == 3
LongRunRules == <<Rule1>>

InitLongRun ==
  /\ clock = RestartTime
  /\ rules = <<>>
  /\ jobs = <<>>
  /\ running = FALSE
  /\ \E i \in DOMAIN LongRunRules :
       \E rec \in StoredRecords(LongRunRules[i]) :
         stateIndex = _persist_state(<<>>, rec.rule_name, rec, TRUE)
  /\ states = _load_states(<<>>, stateIndex, TRUE)
  /\ history = <<>>
  /\ tasks = [t \in TaskIds |-> IdleFrame]
  /\ ticks = 0
  /\ lifespan = "startup"
  /\ last = NoLast

CallUpdateStateNow(rule, condition_met, current_value, pok) ==
  LET now == clock
      sts0 == get_state(states, rule.name)
      u == update_state(sts0[rule.name], rule, condition_met, current_value, now)
  IN /\ condition_met => sts0[rule.name].consecutive_fires < MaxFires
     /\ states' = [sts0 EXCEPT ![rule.name] = u.rec]
     /\ stateIndex' = _persist_state(stateIndex, rule.name, u.rec, pok)
     /\ last' = [NoLast EXCEPT
          !.op = "update_state", !.rule = rule, !.before = sts0[rule.name],
          !.unow = now,
          !.er = [evaluate(rule, current_value) EXCEPT
                    !.condition_met = condition_met],
          !.tr = u.tr, !.persist = Outcome(pok)]
     /\ UNCHANGED <<clock, rules, jobs, running, history, tasks, ticks,
                    lifespan>>

\* the evaluations of one rule, whatever they find
Evaluations(rule) ==
  \E met \in BOOLEAN, v \in QueryValues, pok \in BOOLEAN :
    CallUpdateStateNow(rule, met, v, pok)

NextLongRun ==
  \/ \E i \in DOMAIN LongRunRules : Evaluations(LongRunRules[i])
  \/ Advance

\* the ticks of every rule keep running
SpecLongRun ==
  /\ InitLongRun
  /\ [][NextLongRun]_vars
  /\ \A i \in DOMAIN LongRunRules : WF_vars(Evaluations(LongRunRules[i]))

\* initialize() of a new StateManager against what the cluster answers.
\* The state index holds documents written by _persist_state and may hold
\* one written by something else, whose state from_dict does not know.
MaxHits == 2

ForeignDocument(rule) ==
  [to_dict(AlertStateRecord(rule.name)) EXCEPT !.state = "unknown"]

Documents(rule) ==
  {to_dict(rec) : rec \in StoredRecords(rule)} \cup {ForeignDocument(rule)}

\* response["hits"]["hits"]: the documents of the index, one per id
HitLists ==
  {<<>>}
    \cup {<<d>> : d \in Documents(Rule1) \cup Documents(Rule2)}
    \cup {<<d1, d2>> : d1 \in Documents(Rule1), d2 \in Documents(Rule2)}
    \cup {<<d2, d1>> : d1 \in Documents(Rule1), d2 \in Documents(Rule2)}

Cluster(exists, create, search, hits) ==
  [exists |-> exists, create |-> create, search |-> search, hits |-> hits]

\* what indices.exists, indices.create and search do when initialize calls
\* them: raise, or answer; an index just created has no documents
Clusters ==
  {Cluster("raises", "none", "none", <<>>),
   Cluster("absent", "raises", "none", <<>>),
   Cluster("absent", "created", "raises", <<>>),
   Cluster("absent", "created", "answers", <<>>),
   Cluster("present", "none", "raises", <<>>)}
    \cup {Cluster("present", "none", "answers", hits) :
            hits \in {h \in HitLists : Len(h) <= MaxHits}}

\* AlertStateRecord.from_dict raising: AlertState(data.get("state", "ok"))
\* is a ValueError for a value that is no member of the enum
from_dict_raises(data) == data.state \notin AlertState

\* _load_states, the loop over the hits: each record is put into the map as
\* it is read, until from_dict raises
RECURSIVE load_hits(_, _, _)
load_hits(sts, hits, i) ==
  IF i > Len(hits)
  THEN [states |-> sts, raised |-> FALSE]
  ELSE IF from_dict_raises(hits[i])
       THEN [states |-> sts, raised |-> TRUE]
       ELSE LET record == from_dict(hits[i])
            IN load_hits([n \in DOMAIN sts \cup {record.rule_name} |->
                            IF n = record.rule_name THEN record ELSE sts[n]],
                         hits, i + 1)

\* _load_states: the search and the loop are inside one try, whose except
\* branch logs a warning
load_states_from(sts, cluster) ==
  IF cluster.search = "raises"
  THEN [states |-> sts, raised |-> FALSE, load |-> "failed"]
  ELSE LET l == load_hits(sts, cluster.hits, 1)
       IN [states |-> l.states, raised |-> FALSE,
           load |-> IF l.raised THEN "failed" ELSE "loaded"]

\* initialize: indices.exists and indices.create are called outside any try
initialize_from(sts, cluster) ==
  IF cluster.exists = "raises" \/ cluster.create = "raises"
  THEN [states |-> sts, raised |-> TRUE, load |-> "none"]
  ELSE load_states_from(sts, cluster)

InitInitialize == \E cluster \in Clusters : CallPending(cluster)

CallInitialize ==
  LET r == initialize_from(states, last.args[1])
  IN /\ last.op = "call"
     /\ states' = r.states
     /\ last' = [last EXCEPT !.op = "initialize", !.raised = r.raised,
                              !.load = r.load]
     /\ UNCHANGED <<clock, rules, jobs, running, stateIndex, history, tasks,
                    ticks, lifespan>>

\* the evaluations that follow an initialize that returned
EvaluationAfterInitialize(rule, condition_met, current_value, pok) ==
  /\ last.op \in {"initialize", "update_state"}
  /\ ~last.raised
  /\ CallUpdateState(rule, condition_met, current_value, pok)

NextInitialize ==
  \/ CallInitialize
  \/ \E i \in DOMAIN AllRules, met \in BOOLEAN, v \in QueryValues,
        pok \in BOOLEAN :
       EvaluationAfterInitialize(AllRules[i], met, v, pok)

SpecInitialize == InitInitialize /\ [][NextInitialize]_vars

\* The engine with the operations of its life cycle: stop and reload.
NextLife ==
  \/ Next
  \/ stop
  \/ \E dir \in Disk : reload_rules(dir)

SpecLife == Init /\ [][NextLife]_vars

\* The scheduled ticks under hot reloads of an edited rules directory.
NextReload ==
  \/ Startup(RulesDir)
  \/ \E dir \in DiskEdits : reload_rules(dir)
  \/ \E r \in RuleNames : SchedTick(r)
  \/ \E t \in TaskIds : HttpResponse(t)
  \/ \E t \in TaskIds : BackoffOver(t)
  \/ Advance

SpecReload == Init /\ [][NextReload]_vars

(***************************************************************************)
(* Properties.                                                             *)
(***************************************************************************)
\* update_state ran in the step just taken
UpdateObserved == last.persist # "none"

\* a tick whose query succeeded ran to its end in the step just taken
TickEnded == last.finished /\ last.query # "failed"

\* the rule's record after the step
After == record_of(states, last.rule.name)

\* the state table of the state manager: previous state, condition met
StateTable(prev, met) ==
  CASE prev = OK /\ met -> FIRING
    [] prev = OK /\ ~met -> OK
    [] prev = FIRING /\ met -> FIRING
    [] prev = FIRING /\ ~met -> RESOLVED
    [] prev = RESOLVED /\ met -> FIRING
    [] prev = RESOLVED /\ ~met -> OK

\* the throttle window of a rule, in seconds
ThrottleWindow(rule) ==
  rule.throttle.value *
    (IF rule.throttle.unit = "seconds" THEN 1
     ELSE IF rule.throttle.unit = "hours" THEN 3600 ELSE 60)

\* C1: every update_state call takes (previous state, condition_met) to the
\* new state the state table gives, the transition it returns names the state
\* the record had and the state the record has, and no other transition occurs.
C1_StateTable ==
  UpdateObserved =>
    /\ last.tr.previous_state = last.before.state
    /\ last.tr.new_state = StateTable(last.before.state, last.er.condition_met)
    /\ After.state = last.tr.new_state
    /\ last.tr.changed = (last.tr.previous_state # last.tr.new_state)

C1_Witness ==
  /\ UpdateObserved
  /\ last.tr.previous_state = RESOLVED
  /\ last.tr.new_state = OK
  /\ last.before.last_fired # NoTime

\* C2: in every reachable state every record has consecutive_fires > 0
\* exactly when its state is FIRING.
C2_ConsecutiveFiresIffFiring ==
  \A n \in DOMAIN states :
    (states[n].consecutive_fires > 0) <=> (states[n].state = FIRING)

C2_Witness ==
  /\ UpdateObserved
  /\ last.tr.previous_state = FIRING
  /\ last.tr.new_state = RESOLVED
  /\ last.before.consecutive_fires = 2
  /\ After.consecutive_fires = 0

\* C3: on a sustained FIRING tick at time t with last_notified = t0, the tick
\* notifies exactly when t - t0 reaches the throttle window: never before, and
\* at the first tick at or after it.
C3_ThrottleCorrect ==
  (UpdateObserved /\ last.tr.previous_state = FIRING /\ last.er.condition_met) =>
    IF last.before.last_notified = NoTime
    THEN last.tr.should_notify
    ELSE last.tr.should_notify <=>
           (last.unow - last.before.last_notified >= ThrottleWindow(last.rule))

\* a sustained tick is let through at the window, after one that was held back
C3_Witness ==
  /\ UpdateObserved
  /\ last.tr.previous_state = FIRING
  /\ last.er.condition_met
  /\ last.tr.should_notify
  /\ last.before.consecutive_fires = 2
  /\ last.before.last_notified = last.before.last_fired
  /\ last.unow - last.before.last_notified = ThrottleWindow(last.rule)

\* C4: the throttle holds back sustained FIRING -> FIRING ticks only: every
\* OK -> FIRING, RESOLVED -> FIRING and FIRING -> RESOLVED transition notifies,
\* also inside the throttle window.
C4_TransitionsAlwaysNotify ==
  UpdateObserved =>
    /\ (last.tr.changed /\ last.tr.new_state \in {FIRING, RESOLVED})
         => last.tr.should_notify
    /\ (last.er.condition_met /\ ~last.tr.should_notify)
         => (last.tr.previous_state = FIRING /\ last.tr.new_state = FIRING)

\* RESOLVED -> FIRING inside the window opened by the resolve notification
C4_Witness ==
  /\ UpdateObserved
  /\ last.tr.previous_state = RESOLVED
  /\ last.tr.new_state = FIRING
  /\ last.tr.should_notify
  /\ last.before.last_notified # NoTime
  /\ last.unow - last.before.last_notified < ThrottleWindow(last.rule)

LastNotified(sts, n) == record_of(sts, n).last_notified

\* C5: over every step last_notified of every rule does not decrease, and it
\* changes exactly in a step where update_state ran for that rule and returned
\* should_notify = true (so not on a query-failure tick).
C5_LastNotifiedAdvances ==
  [][\A n \in RuleNames :
       /\ LastNotified(states', n) >= LastNotified(states, n)
       /\ (LastNotified(states', n) # LastNotified(states, n)) <=>
            (/\ last'.persist # "none"
             /\ last'.rule.name = n
             /\ last'.tr.should_notify)]_vars

C5_Witness ==
  /\ UpdateObserved
  /\ last.tr.should_notify
  /\ last.before.last_notified # NoTime
  /\ After.last_notified > last.before.last_notified

C7_QueryFailureTick ==
  (last.query = "failed") =>
    /\ Len(last.event) = 1
    /\ last.event[1].event_type = "error"
    /\ last.event[1].rule_name = last.rule.name
    /\ last.event[1].error = last.qerror
    /\ last.qerror \in QueryErrors
    /\ last.hist \in {"written", "failed"}
    /\ (last.hist = "written") =>
         (Len(history) > 0 /\ history[Len(history)] = last.event[1])
    /\ last.requests = 0
    /\ last.persist = "none"
    /\ last.finished
    /\ tasks[last.task].pc = "idle"
    /\ After = last.before

\* the query of a rule that is FIRING fails
C7_Witness ==
  /\ last.query = "failed"
  /\ last.hist = "written"
  /\ last.before.state = FIRING
  /\ After.state = FIRING

Successes(results) == {i \in 1..Len(results) : results[i].success}

\* C8: at the end of a tick notification_results has one entry per action when
\* the tick notified and none otherwise; the event carries them all;
\* notification_sent holds iff some action succeeded; notification_status is
\* success iff all succeeded, partial iff some did and some did not, failed iff
\* none of the attempted did, null iff none was attempted.
C8_NotificationAggregation ==
  TickEnded =>
    LET res == last.results
        ok == Successes(res)
    IN /\ Len(res) = (IF last.tr.should_notify THEN Len(last.rule.actions) ELSE 0)
       /\ \A i \in 1..Len(res) :
            res[i].status = (IF res[i].success THEN "success" ELSE "failed")
       /\ last.tr.should_notify => Len(last.event) = 1
       /\ (Len(last.event) = 1) =>
            LET e == last.event[1]
            IN /\ e.notification_results = res
               /\ e.notification_sent <=> (ok # {})
               /\ (e.notification_status = "null") <=> (Len(res) = 0)
               /\ (e.notification_status = "success") <=>
                    (Len(res) > 0 /\ Cardinality(ok) = Len(res))
               /\ (e.notification_status = "partial") <=>
                    (ok # {} /\ Cardinality(ok) < Len(res))
               /\ (e.notification_status = "failed") <=>
                    (Len(res) > 0 /\ ok = {})

\* two actions, the first failed and the second succeeded
C8_Witness ==
  /\ TickEnded
  /\ Len(last.event) = 1
  /\ Len(last.results) = 2
  /\ ~last.results[1].success
  /\ last.results[2].success
  /\ last.event[1].notification_status = "partial"

\* C9: a tick whose query succeeded hands an event to the history exactly when
\* its transition has changed or should_notify; the type is fired when the new
\* state is FIRING and resolved otherwise; a throttled sustained tick hands none.
C9_HistoryEventIffChangedOrNotify ==
  TickEnded =>
    /\ (Len(last.event) = 1) <=> (last.tr.changed \/ last.tr.should_notify)
    /\ Len(last.event) =< 1
    /\ (Len(last.event) = 1) =>
         /\ last.event[1].event_type =
              (IF last.tr.new_state = FIRING THEN "fired" ELSE "resolved")
         /\ last.event[1].rule_name = last.rule.name
         /\ last.hist \in {"written", "failed"}
         /\ (last.hist = "written") =>
              (Len(history) > 0 /\ history[Len(history)] = last.event[1])
    /\ (Len(last.event) = 0) => last.hist = "none"

\* a sustained FIRING tick inside the window ends without an event
C9_Witness ==
  /\ TickEnded
  /\ UpdateObserved
  /\ last.tr.previous_state = FIRING
  /\ last.tr.new_state = FIRING
  /\ ~last.tr.should_notify
  /\ last.event = <<>>
  /\ After.consecutive_fires = 2

\* a trigger_manual call is between its update_state and the read of the
\* record it builds its return value from
InManualSection(t, rule_name) ==
  /\ IsManual(t)
  /\ tasks[t].pc \in {"http", "sleep"}
  /\ tasks[t].rule.name = rule_name

\* C10: no tick of a rule mutates the rule's record while another tick of the
\* same rule is between its own accesses to that record.
C10_PerRuleMutualExclusion ==
  UpdateObserved =>
    \A t \in TaskIds \ {last.task} : ~InManualSection(t, last.rule.name)

\* a run of _check_alert for the rule is suspended in its notification step
TickInFlight(t, rule_name) ==
  /\ tasks[t].pc \in {"http", "sleep"}
  /\ tasks[t].rule.name = rule_name

\* C11: at any time at most one tick of a given rule is executing: a scheduled
\* start or a manual trigger never begins a tick of a rule while another tick
\* of that rule is still in flight.
C11_TicksSerialized ==
  \A n \in RuleNames :
    Cardinality({t \in TaskIds : TickInFlight(t, n)}) =< 1

\* C12: the notifier calls of a notifying tick are dispatched in parallel:
\* while the tick waits for a delivery (a response, or a backoff sleep between
\* retries), the delivery of every action of its rule has been started.
C12_ParallelDispatch ==
  \A t \in TaskIds :
    (tasks[t].pc \in {"http", "sleep"}) =>
      (tasks[t].idx = Len(tasks[t].rule.actions))

\* a webhook delivery of the task's tick is under way
Delivering(frame) == frame.pc \in {"http", "sleep"}

\* C13: the steps of a tick run in the order query, evaluate, state update,
\* notify, record.  update_state runs only on the result of a successful
\* query; whenever a delivery of a tick is under way the rule's record already
\* carries that tick's update, and the step that issued the tick's first
\* request is the step that updated and persisted the state; the history
\* changes only in the step that ends a tick, after the last delivery, and a
\* fired or resolved event carries the result of every action of the tick.
C13_StepOrder ==
  [][/\ \A t \in TaskIds :
          Delivering(tasks'[t]) =>
            /\ tasks'[t].rule.name \in DOMAIN states'
            /\ states'[tasks'[t].rule.name].last_checked >= tasks'[t].now
     /\ (last'.op = "tick" /\ last'.persist # "none") =>
          /\ last'.query = "ok"
          /\ last'.tr.new_state =
               StateTable(last'.before.state, last'.er.condition_met)
     /\ (last'.op = "tick" /\ last'.requests > 0) =>
          /\ last'.persist # "none"
          /\ last'.tr.should_notify
          /\ record_of(states', last'.rule.name).last_checked = last'.unow
     /\ (history' # history) =>
          /\ last'.finished
          /\ ~Delivering(tasks'[last'.task])
          /\ Len(last'.event) = 1
          /\ history' = Append(history, last'.event[1])
          /\ (last'.event[1].event_type \in {"fired", "resolved"}) =>
               /\ last'.event[1].notification_results = last'.results
               /\ Len(last'.results) =
                    (IF last'.tr.should_notify
                     THEN Len(last'.rule.actions) ELSE 0)]_vars

\* a tick with two actions ends: its state was persisted before the first
\* request, its event is written after the second result
C13_Witness ==
  /\ last.op = "resume"
  /\ last.finished
  /\ last.hist = "written"
  /\ Len(last.results) = 2
  /\ history[Len(history)].event_type = "fired"
  /\ Len(history[Len(history)].notification_results) = 2
  /\ last.rule.name \in DOMAIN stateIndex
  /\ stateIndex[last.rule.name].state = FIRING

\* the notification_results of the tick the step just taken belongs to
CollectedResults ==
  IF last.finished THEN last.results ELSE tasks[last.task].results

\* C14: send makes at most Retries requests and then returns a result, never
\* an exception: at the first attempt k whose response has a status below 400
\* it returns success with attempts = k; after a failed attempt (a status of
\* 400 or more, or a transport error) before the last it goes on with the same
\* action; after Retries failed attempts it returns failure with attempts =
\* Retries.  The result it returns is the one the tick collects.
C14_SendReturns ==
  /\ \A t \in TaskIds :
       Delivering(tasks[t]) => tasks[t].attempt \in 1..Retries
  /\ (last.sent # <<>>) => (last.outcome # "none")
  /\ (last.outcome # "none") =>
       /\ last.attempt \in 1..Retries
       /\ (last.outcome = "ok") =>
            last.sent = <<[success |-> TRUE, attempts |-> last.attempt]>>
       /\ (last.outcome # "ok" /\ last.attempt < Retries) =>
            /\ last.sent = <<>>
            /\ Delivering(tasks[last.task])
            /\ tasks[last.task].attempt \in {last.attempt, last.attempt + 1}
            /\ Len(tasks[last.task].results) = tasks[last.task].idx - 1
       /\ (last.outcome # "ok" /\ last.attempt = Retries) =>
            last.sent = <<[success |-> FALSE, attempts |-> Retries]>>
       /\ (last.sent # <<>>) =>
            /\ Len(CollectedResults) > 0
            /\ CollectedResults[Len(CollectedResults)].success =
                 last.sent[1].success

\* the second attempt of a send succeeds
C14_Witness ==
  /\ last.outcome = "ok"
  /\ last.attempt = 2
  /\ last.sent = <<[success |-> TRUE, attempts |-> 2]>>

\* C15: after a failed attempt k of a send that is not the last attempt, be it
\* a status of 400 or more or a transport error, the notifier sleeps
\* 2^(k-1) seconds and issues attempt k+1 only when that sleep is over; after
\* the last attempt it does not sleep.
C15_BackoffBetweenAttempts ==
  [][/\ (last'.outcome \in {"status", "raise"}) =>
          IF last'.attempt < Retries
          THEN /\ tasks'[last'.task].pc = "sleep"
               /\ tasks'[last'.task].wake = clock' + 2 ^ (last'.attempt - 1)
               /\ last'.requests = 0
          ELSE tasks'[last'.task].pc # "sleep"
     /\ \A t \in TaskIds :
          (/\ tasks[t].attempt >= 1
           /\ tasks'[t].attempt = tasks[t].attempt + 1
           /\ tasks'[t].idx = tasks[t].idx) =>
            (tasks[t].pc = "sleep" /\ clock >= tasks[t].wake)]_vars

\* C16: the throttle is an admission gate.  The update_state call that returns
\* should_notify = true stamps last_notified with its clock read, before any
\* request is made; no step of the deliveries that follow, whatever their
\* outcome, changes the rule's record, so a tick whose webhooks all failed
\* leaves the state and last_notified as update_state set them; and a tick
\* that finds the rule FIRING and keeps it FIRING notifies (and so issues
\* requests) only when a full throttle window has passed since last_notified.
C16_ThrottleIsAdmissionGate ==
  [][/\ (last'.persist # "none" /\ last'.tr.should_notify) =>
          /\ record_of(states', last'.rule.name).last_notified = last'.unow
          /\ record_of(states', last'.rule.name).state = last'.tr.new_state
     /\ (last'.op = "resume") =>
          /\ last'.rule.name \in DOMAIN states
          /\ states'[last'.rule.name] = states[last'.rule.name]
     /\ (last'.op = "tick" /\ last'.requests > 0) => last'.tr.should_notify
     /\ (/\ last'.persist # "none"
         /\ last'.tr.previous_state = FIRING
         /\ last'.tr.new_state = FIRING
         /\ last'.tr.should_notify) =>
          /\ last'.before.last_notified # NoTime
          /\ last'.unow - last'.before.last_notified >=
               ThrottleWindow(last'.rule)]_vars

\* every webhook of the firing tick failed; the next tick, inside the window,
\* finds the rule FIRING with last_notified set and is held back
C16_Witness ==
  /\ last.op = "tick"
  /\ UpdateObserved
  /\ last.tr.previous_state = FIRING
  /\ last.tr.new_state = FIRING
  /\ ~last.tr.should_notify
  /\ last.requests = 0
  /\ Len(history) > 0
  /\ history[Len(history)].rule_name = last.rule.name
  /\ history[Len(history)].event_type = "fired"
  /\ history[Len(history)].notification_status = "failed"
  /\ last.before.last_notified = last.before.last_fired
  /\ After.last_notified = last.before.last_notified

\* some step of the tick failed: the query, the state write, a delivery or
\* the history write
StepFailed ==
  \/ last.query = "failed"
  \/ last.persist = "failed"
  \/ last.hist = "failed"
  \/ last.outcome \in {"status", "raise"}

\* C17: a step of a tick of rule A, failing or not, leaves everything of
\* every other rule B as it was: B's record (and whether it exists), B's
\* stored document, B's job and the frame of B's job, and whether the
\* scheduler runs; so B's next tick starts exactly as it would have.
C17_NoCascade ==
  [][(last'.op \in {"tick", "resume"}) =>
       /\ running' = running
       /\ jobs' = jobs
       /\ rules' = rules
       /\ \A b \in RuleNames \ {last'.rule.name} :
            /\ (b \in DOMAIN states') <=> (b \in DOMAIN states)
            /\ record_of(states', b) = record_of(states, b)
            /\ (b \in DOMAIN stateIndex') <=> (b \in DOMAIN stateIndex)
            /\ (b \in DOMAIN stateIndex) => (stateIndex'[b] = stateIndex[b])
            /\ (last'.task # b) => (tasks'[b] = tasks[b])]_vars

\* a tick of one rule ends with every webhook failed and the history write
\* failed, while the other rule is FIRING
C17_Witness ==
  /\ last.op = "resume"
  /\ last.finished
  /\ last.hist = "failed"
  /\ StepFailed
  /\ \A i \in 1..Len(last.results) : ~last.results[i].success
  /\ \E b \in RuleNames \ {last.rule.name} :
       /\ b \in DOMAIN states
       /\ states[b].state = FIRING
       /\ b \in DOMAIN jobs
  /\ running

\* the enabled rules of the table whose interval is <N><s|m|h|d>
Schedulable(rs) ==
  {n \in get_enabled_rules(rs) : _parse_interval_ok(rs[n].interval)}

\* C18: start() and reload_rules() skip an enabled rule whose interval does
\* not parse and nothing else: afterwards exactly the enabled rules with a
\* valid interval have a job, each with the rule as loaded, and start() leaves
\* the scheduler running.
C18_BadIntervalSkipsOnlyThatRule ==
  (last.op \in {"startup", "reload"}) =>
    /\ DOMAIN jobs = Schedulable(rules)
    /\ \A n \in DOMAIN jobs : jobs[n] = rules[n]
    /\ (last.op = "startup") => running

\* stop() has been called on the started scheduler
Stopped == lifespan = "serving" /\ ~running

\* C19: once stop() has been called no step starts a tick of any rule and
\* is_running stays false; stop() on a scheduler that is not running changes
\* nothing.
C19_NoTickAfterStop ==
  [][/\ Stopped => (ticks' = ticks /\ ~running')
     /\ (last'.op = "stop_noop") =>
          UNCHANGED <<clock, rules, jobs, running, states, stateIndex, history,
                      tasks, ticks, lifespan>>]_vars

\* C20: a tick in flight when stop() is called begins no further step: when
\* the step that follows stop() resumes a tick (one that was suspended in a
\* delivery when stop() ran), that step issues no webhook request, writes no
\* history event and updates no record.
C20_NoStepAfterStop ==
  [][(last.op = "stop" /\ last'.op = "resume") =>
       /\ last'.requests = 0
       /\ last'.hist = "none"
       /\ history' = history
       /\ states' = states]_vars

\* reload_rules() returned in the step just taken
ReloadCompleted == last.op = "reload" /\ ~last.raised

\* C21: after reload_rules() completes, exactly the enabled rules of the newly
\* loaded rule map have a job, each job holding the rule as loaded; a
\* scheduled tick starts only for a rule that has a job and runs on the rule
\* of that job, so a rule removed or disabled ticks no more and an added one
\* does; the reload leaves every StateRecord, and every stored document, as
\* it was.
C21_ReloadReinstallsTicks ==
  [][/\ (last'.op = "reload" /\ ~last'.raised) =>
          /\ DOMAIN jobs' = {n \in DOMAIN rules' : rules'[n].enabled}
          /\ \A n \in DOMAIN jobs' : jobs'[n] = rules'[n]
          /\ states' = states
          /\ stateIndex' = stateIndex
     /\ (last'.op = "tick" /\ last'.task \in RuleNames) =>
          /\ last'.task \in DOMAIN jobs
          /\ last'.rule = jobs[last'.task]
          /\ jobs' = jobs]_vars

\* a reload finds the file of a rule gone: the rule, FIRING, keeps its record
\* and has no job; the other rule has its job
C21_Witness ==
  /\ ReloadCompleted
  /\ \E n \in DOMAIN states :
       /\ states[n].state = FIRING
       /\ n \notin DOMAIN rules
       /\ n \notin DOMAIN jobs
  /\ \E n \in DOMAIN jobs : rules[n].enabled

\* the rule files of a directory that parse and validate
GoodFiles(dir) ==
  {i \in DOMAIN dir.files :
     dir.files[i].json /\ RequiredFields \subseteq DOMAIN dir.files[i].data}

\* the complete rule map of a directory: every name that a good file carries,
\* with the document of the last good file of that name
FullRuleMap(dir) ==
  IF ~dir.exists
  THEN <<>>
  ELSE [n \in {dir.files[i].data.name : i \in GoodFiles(dir)} |->
          dir.files[CHOOSE i \in GoodFiles(dir) :
                      /\ dir.files[i].data.name = n
                      /\ \A j \in GoodFiles(dir) :
                           dir.files[j].data.name = n => j =< i].data]

\* C22: the rule map changes only in the step of a start or a reload, and
\* that step leaves the complete map of the directory it found: no step of a
\* tick, of a trigger or of a read finds a map that is partly loaded.  A
\* reload leaves the frames of the ticks in flight alone; a tick that goes on
\* after it keeps the rule it was started with (for a scheduled tick the rule
\* held by its job), and the event it writes carries that rule's threshold
\* and one result per action of that rule.
C22_ReloadIsAtomic ==
  [][/\ (last'.op \in {"startup", "reload"}) =>
          /\ Len(last'.dir) = 1
          /\ rules' = FullRuleMap(last'.dir[1])
     /\ (last'.op \notin {"startup", "reload"}) => (rules' = rules)
     /\ (last'.op = "reload") => (tasks' = tasks)
     /\ \A t \in TaskIds :
          (Delivering(tasks[t]) /\ Delivering(tasks'[t])) =>
            (tasks'[t].rule = tasks[t].rule /\ tasks'[t].er = tasks[t].er)
     /\ (last'.op = "tick" /\ last'.task \in RuleNames) =>
          (last'.rule = jobs[last'.task])
     /\ (last'.op = "resume") =>
          /\ last'.rule = tasks[last'.task].rule
          /\ (Len(last'.event) = 1) =>
               /\ last'.event[1].rule_name = last'.rule.name
               /\ last'.event[1].threshold = last'.rule.condition.value
               /\ Len(last'.event[1].notification_results) =
                    Len(last'.rule.actions)]_vars

\* a tick that was in flight when its rule was edited and reloaded ends: its
\* event carries the threshold of the rule it started with
C22_Witness ==
  /\ last.op = "resume"
  /\ last.finished
  /\ last.hist = "written"
  /\ last.rule.name \in DOMAIN rules
  /\ rules[last.rule.name] # last.rule
  /\ rules[last.rule.name].condition.value # last.rule.condition.value
  /\ history[Len(history)].threshold = last.rule.condition.value

\* C23: trigger_manual(name) returns null exactly when name is not in the
\* rule map, and that call changes nothing and writes no history; for a name
\* in the map it runs _check_alert once on the rule of the map (one more tick
\* counted, the state table applied to the evaluation of the query value),
\* and when that tick has ended it returns one manual_trigger event for the
\* rule whose value, threshold and condition_met are read from the rule's
\* record as the call leaves it (condition_met: the record is FIRING).
C23_ManualTrigger ==
  [][/\ (last'.task \in ManualIds /\ last'.op \in {"tick", "unknown_rule"}) =>
          /\ (last'.op = "unknown_rule") <=> (last'.rule.name \notin DOMAIN rules)
          /\ (last'.op = "unknown_rule") =>
               /\ last'.ret = <<>>
               /\ UNCHANGED <<clock, rules, jobs, running, states, stateIndex,
                              history, tasks, ticks, lifespan>>
          /\ (last'.op = "tick") =>
               /\ last'.rule = rules[last'.rule.name]
               /\ ticks' = ticks + 1
               /\ (last'.persist # "none") =>
                    /\ last'.er.condition_met =
                         evaluate(last'.rule, last'.er.actual_value).condition_met
                    /\ last'.tr.new_state =
                         StateTable(last'.before.state, last'.er.condition_met)
     /\ (last'.task \in ManualIds /\ last'.op = "resume") => (ticks' = ticks)
     /\ (last'.task \in ManualIds /\ last'.op \in {"tick", "resume"}) =>
          IF last'.finished
          THEN /\ Len(last'.ret) = 1
               /\ last'.ret[1].event_type = "manual_trigger"
               /\ last'.ret[1].rule_name = last'.rule.name
               /\ last'.rule.name \in DOMAIN states'
               /\ last'.ret[1].value = states'[last'.rule.name].current_value
               /\ last'.ret[1].threshold = states'[last'.rule.name].threshold
               /\ last'.ret[1].condition_met =
                    (states'[last'.rule.name].state = FIRING)
          ELSE last'.ret = <<>>]_vars

\* a manual trigger that notified returns after its deliveries: the rule is
\* FIRING and the event says so
C23_Witness ==
  /\ last.op = "resume"
  /\ last.task \in ManualIds
  /\ last.finished
  /\ Len(last.ret) = 1
  /\ last.ret[1].condition_met
  /\ last.ret[1].value = 150
  /\ last.ret[1].threshold = 100
  /\ states[last.rule.name].state = FIRING

\* whether update_state notifies, by the state table and the throttle window
ExpectedNotify(before, rule, met, now) ==
  CASE StateTable(before.state, met) = RESOLVED -> TRUE
    [] StateTable(before.state, met) = OK -> FALSE
    [] StateTable(before.state, met) = FIRING ->
         \/ before.state # FIRING
         \/ before.last_notified = NoTime
         \/ now - before.last_notified >= ThrottleWindow(rule)

\* the record update_state leaves, by the state table and the throttle window
Expected(before, rule, met, value, now) ==
  LET new == StateTable(before.state, met)
  IN [rule_name |-> before.rule_name, state |-> new, last_checked |-> now,
      last_fired |-> IF new = FIRING /\ before.state # FIRING
                     THEN now ELSE before.last_fired,
      last_resolved |-> IF new = RESOLVED THEN now ELSE before.last_resolved,
      last_notified |-> IF ExpectedNotify(before, rule, met, now)
                        THEN now ELSE before.last_notified,
      consecutive_fires |-> IF new # FIRING THEN 0
                            ELSE IF before.state = FIRING
                                 THEN before.consecutive_fires + 1 ELSE 1,
      current_value |-> value, threshold |-> rule.condition.value]

\* C24: whether the state write of an update_state call fails or not, the
\* call returns the same transition and leaves the same record in memory;
\* a failed write leaves the index as it was; the call works on the record in
\* memory, not on the stored document; and a write that succeeds stores the
\* record as it then is, whatever the writes before it did.
C24_WriteFailureKeepsMemory ==
  [][(last'.persist # "none") =>
       LET n == last'.rule.name
           e == Expected(last'.before, last'.rule, last'.er.condition_met,
                         last'.er.actual_value, last'.unow)
       IN /\ last'.before = record_of(states, n)
          /\ n \in DOMAIN states'
          /\ states'[n] = e
          /\ last'.tr.previous_state = last'.before.state
          /\ last'.tr.new_state = e.state
          /\ last'.tr.changed = (e.state # last'.before.state)
          /\ last'.tr.should_notify =
               ExpectedNotify(last'.before, last'.rule, last'.er.condition_met,
                              last'.unow)
          /\ (last'.persist = "failed") => (stateIndex' = stateIndex)
          /\ (last'.persist = "written") =>
               /\ n \in DOMAIN stateIndex'
               /\ from_dict(stateIndex'[n]) = states'[n]
               /\ \A m \in DOMAIN stateIndex' \ {n} :
                    m \in DOMAIN stateIndex /\ stateIndex'[m] = stateIndex[m]]_vars

\* the write of the update that resolves a rule fails: the memory says
\* RESOLVED with the counter reset, the stored document still says FIRING
C24_Witness ==
  /\ last.persist = "failed"
  /\ last.tr.previous_state = FIRING
  /\ last.tr.new_state = RESOLVED
  /\ last.tr.should_notify
  /\ states[last.rule.name].state = RESOLVED
  /\ states[last.rule.name].consecutive_fires = 0
  /\ last.rule.name \in DOMAIN stateIndex
  /\ stateIndex[last.rule.name].state = FIRING

\* the document stored for the rule is the one of its record in memory
InSync(sts, index, n) ==
  /\ n \in DOMAIN sts
  /\ n \in DOMAIN index
  /\ index[n] = to_dict(sts[n])

LoaderCall(l) == l.op \in {"load_all_rules", "loader_reload_rules"}

C27_LoadSkipsBadFiles ==
  LoaderCall(last) =>
    LET d == last.dir[1]
    IN /\ ~d.exists => (rules = <<>>)
       /\ d.exists =>
            /\ \A i \in GoodFiles(d) : d.files[i].data.name \in DOMAIN rules
            /\ \A n \in DOMAIN rules :
                 \E i \in GoodFiles(d) :
                   /\ d.files[i].data.name = n
                   /\ \A j \in GoodFiles(d) : d.files[j].data.name = n => j =< i
                   /\ rules[n].name = n
                   /\ rules[n].enabled = d.files[i].data.enabled
                   /\ rules[n].condition = d.files[i].data.condition
                   /\ rules[n].interval = d.files[i].data.interval

\* the file of r1, loaded before, is no longer valid JSON: the load drops r1
\* and loads r2 from the file after it
C27_Witness ==
  /\ LoaderCall(last)
  /\ "r1" \in DOMAIN last.loaded[1]
  /\ last.dir[1].exists
  /\ last.dir[1].files = <<NotJsonFile, RuleFile(Rule2)>>
  /\ DOMAIN rules = {"r2"}

\* a {{alert.<path>}} placeholder of the string spans positions i to k + 2
PlaceholderAt(text, i, k) ==
  /\ text[i] = OPEN
  /\ i < k
  /\ k + 2 =< Len(text)
  /\ \A j \in (i + 1)..k : text[j] # CLOSE
  /\ text[k + 1] = CLOSE
  /\ text[k + 2] = CLOSE

\* the paths of the placeholders of a string
PathsOf(text) ==
  {SubSeq(text, i + 1, k) : <<i, k>> \in
     {ik \in (DOMAIN text) \X (DOMAIN text) : PlaceholderAt(text, ik[1], ik[2])}}

\* the paths of the placeholders of the strings of a value
RECURSIVE Paths(_)
Paths(v) ==
  CASE IsStr(v) -> PathsOf(v.str)
    [] IsList(v) -> UNION {Paths(v.list[i]) : i \in DOMAIN v.list}
    [] IsDict(v) -> UNION {Paths(v.dict[i].v) : i \in DOMAIN v.dict}
    [] OTHER -> {}

\* the dotted path leads to a value of the context
RECURSIVE Present(_, _)
Present(parts, bindings) ==
  /\ parts # <<>>
  /\ \E b \in bindings :
       /\ b.key = Head(parts)
       /\ \/ Len(parts) = 1
          \/ /\ "cdict" \in DOMAIN b.val
             /\ Present(Tail(parts), b.val.cdict)

\* C28: rendering a value none of whose strings holds a placeholder returns
\* a value equal to it, for every context and for strings, mappings, lists
\* and scalars alike; and so does rendering a value all of whose placeholders
\* have a path that is missing from the context.
C28_RenderFixedPoint ==
  (last.op = "render") =>
    LET template == last.args[1].template
        context == last.args[1].context
    IN /\ (Paths(template) = {}) => (last.result[1] = template)
       /\ (\A path \in Paths(template) : ~Present(split(path), context)) =>
            (last.result[1] = template)

\* a mapping with a string and a list, whose placeholders a.a and "." are
\* missing from a context that has a: it is rendered unchanged
C28_Witness ==
  /\ last.op = "render"
  /\ last.args[1].template =
       Dict(<<[key |-> "text", v |-> Placeholder(<<"a", ".", "a">>)],
              [key |-> "blocks", v |-> List(<<Placeholder(<<".">>), Num(42)>>)]>>)
  /\ last.args[1].context = {[key |-> <<"a">>, val |-> CStr(<<"v">>)]}
  /\ last.result[1] = last.args[1].template

\* the value the case order of the specification names for an aggregation
\* rule: the entry of values under the parts of the field after the first,
\* else value, else 0
ByCaseOrder(response, agg_field) ==
  LET v == IF "aggregations" \in DOMAIN response
              /\ "alert_agg" \in DOMAIN response.aggregations
           THEN response.aggregations.alert_agg
           ELSE [none |-> TRUE]
      key == join(Tail(split(agg_field)))
  IN IF "values" \in DOMAIN v
     THEN IF \E b \in v.values : b.key = key
          THEN (CHOOSE b \in v.values : b.key = key).val
          ELSE Number(0)
     ELSE IF "value" \in DOMAIN v THEN v.value ELSE Number(0)

\* the total hit count of a response, object or bare integer
HitCount(response) ==
  IF "hits" \in DOMAIN response /\ "total" \in DOMAIN response.hits
  THEN IF IsObject(response.hits.total)
       THEN IF "value" \in DOMAIN response.hits.total
            THEN response.hits.total.value ELSE Number(0)
       ELSE response.hits.total
  ELSE Number(0)

\* C29: for every response, execute succeeds with, for a rule with an
\* aggregation and an aggregation_field, the value the case order gives
\* (values[parts after the first], else value, else 0.0), and for a rule
\* without aggregation the total hit count.
C29_ExtractionCaseOrder ==
  (last.op = "execute") =>
    LET rule == last.args[1].rule
        response == last.args[1].response
    IN /\ (rule.aggregation /\ rule.aggregation_field # <<>>) =>
            /\ last.result[1].success
            /\ Number(last.result[1].value) =
                 ByCaseOrder(response, rule.aggregation_field)
       /\ ~rule.aggregation =>
            /\ last.result[1].success
            /\ Number(last.result[1].value) = HitCount(response)

\* the comparison an operator of OPERATORS names, on numbers
Compares(op, a, b) ==
  \/ op = "gt" /\ a > b
  \/ op = "gte" /\ (a > b \/ a = b)
  \/ op = "lt" /\ b > a
  \/ op = "lte" /\ (b > a \/ a = b)
  \/ op = "eq" /\ a = b

\* C30: evaluate is total.  In every tick whose query succeeded, with
\* gt, gte, lt, lte or eq condition_met is the comparison of the query value
\* with the threshold; with any other operator string condition_met is false,
\* the message is the unknown-operator one, nothing is raised, and the rule's
\* record is not FIRING after the tick.
C30_EvaluateIsTotal ==
  (last.op = "tick" /\ last.query = "ok") =>
    LET op == last.rule.condition.operator
        er == last.er
    IN /\ ~last.raised
       /\ er.actual_value \in QueryValues
       /\ er.threshold = last.rule.condition.value
       /\ op \in {"gt", "gte", "lt", "lte", "eq"} =>
            (er.condition_met <=> Compares(op, er.actual_value, er.threshold))
       /\ op \notin {"gt", "gte", "lt", "lte", "eq"} =>
            /\ ~er.condition_met
            /\ er.message.text = "Unknown operator: "
            /\ er.message.operator = op
            /\ last.tr.new_state # "firing"
            /\ After.state # "firing"

\* a tick of a rule with operator "ne" whose query value is above the threshold
C30_Witness ==
  /\ last.op = "tick" /\ last.query = "ok"
  /\ last.rule.condition.operator = "ne"
  /\ last.er.actual_value > last.er.threshold
  /\ ~last.er.condition_met

\* the token of the credentials decodes under the signing key, has not
\* expired and names its subject
ValidToken(credentials) ==
  /\ credentials # <<>>
  /\ credentials[1].key = SecretKey
  /\ ~credentials[1].expired
  /\ credentials[1].sub # <<>>

IsAdmin(credentials) == credentials[1].role = <<"admin">>

\* the step is the answer of one of the two admin routes to the request
RouteAnswers ==
  /\ last.op = "request"
  /\ \/ last'.op \in {"refused", "reload", "unknown_rule"}
     \/ last'.op = "tick" /\ IsManual(last'.task)

EngineUntouched ==
  UNCHANGED <<clock, rules, jobs, running, states, stateIndex, history, tasks,
              ticks, lifespan>>

\* C31: with authentication enabled, the trigger and reload routes answer a
\* request without a valid token with 401 and one whose role is not admin
\* with 403, in both cases without running a tick or a reload (nothing of
\* the engine changes); only a valid admin token gets the operation.
C31_AdminRoutesRequireAdmin ==
  [][(RouteAnswers /\ last.args[1].auth_enabled) =>
       LET credentials == last.args[1].credentials
       IN /\ ~ValidToken(credentials) =>
               /\ last'.op = "refused" /\ last'.result = <<401>>
               /\ EngineUntouched
          /\ (ValidToken(credentials) /\ ~IsAdmin(credentials)) =>
               /\ last'.op = "refused" /\ last'.result = <<403>>
               /\ EngineUntouched
          /\ (ValidToken(credentials) /\ IsAdmin(credentials)) =>
               last'.op # "refused"]_vars

\* a viewer's valid token was refused on the trigger route after the engine
\* had run a tick
C31_Witness ==
  /\ last.op = "refused" /\ last.result = <<403>>
  /\ last.args[1].route = "trigger"
  /\ last.args[1].rule_name \in DOMAIN rules
  /\ ValidToken(last.args[1].credentials)
  /\ ticks > 0

\* C32: in production or staging validate_settings raises unless
\* authentication is enabled and the signing key is not the sentinel default.
C32_ProductionRequiresAuth ==
  (last.op = "validate_settings"
   /\ last.args[1].environment \in {"production", "staging"}) =>
    (last.result[1].raised <=>
       ~(last.args[1].auth_enabled /\ last.args[1].secret_key # SENTINEL))

\* C33: a tick that takes a rule from RESOLVED to OK issues no webhook
\* request and leaves last_notified as it was, and hands record_event one
\* event of type resolved with notification_sent false, no notification
\* status and no notification results; a tick from OK to OK hands it none.
C33_ResolvedToOkIsSilent ==
  (last.op = "tick" /\ last.query = "ok" /\ last.tr.new_state = OK) =>
    /\ last.finished
    /\ last.requests = 0
    /\ ~last.tr.should_notify
    /\ After.last_notified = last.before.last_notified
    /\ (last.tr.previous_state = RESOLVED) =>
         /\ last.tr.changed
         /\ Len(last.event) = 1
         /\ last.event[1].event_type = "resolved"
         /\ last.event[1].rule_name = last.rule.name
         /\ ~last.event[1].notification_sent
         /\ last.event[1].notification_status = "null"
         /\ last.event[1].notification_results = <<>>
         /\ last.hist \in {"written", "failed"}
         /\ (last.hist = "written") => history[Len(history)] = last.event[1]
    /\ (last.tr.previous_state = OK) =>
         /\ ~last.tr.changed
         /\ last.event = <<>>
         /\ last.hist = "none"

\* a tick took a rule that had notified from RESOLVED to OK and its event
\* was written
C33_Witness ==
  /\ last.op = "tick" /\ last.query = "ok"
  /\ last.tr.previous_state = RESOLVED /\ last.tr.new_state = OK
  /\ last.before.last_notified # NoTime
  /\ last.hist = "written"

\* the timestamps of a record are consistent with its state
TimestampsConsistent(rec) ==
  /\ (rec.state = FIRING) =>
       (rec.last_fired # NoTime /\ rec.last_notified # NoTime)
  /\ (rec.state = RESOLVED) =>
       (rec.last_resolved # NoTime /\ rec.last_resolved >= rec.last_fired)
  /\ rec.last_checked >= rec.last_fired
  /\ rec.last_checked >= rec.last_resolved
  /\ rec.last_checked >= rec.last_notified

\* C34: over every step, the record of every rule has timestamps consistent
\* with its state (FIRING: last_fired and last_notified set; RESOLVED:
\* last_resolved set and not before last_fired; last_checked not before any
\* other timestamp), last_checked does not decrease, last_fired changes
\* only when the record enters FIRING and last_resolved only when it goes
\* from FIRING to RESOLVED.
C34_TimestampInvariants ==
  [][\A n \in RuleNames :
       LET before == record_of(states, n)
           after == record_of(states', n)
       IN /\ TimestampsConsistent(after)
          /\ after.last_checked >= before.last_checked
          /\ (after.last_fired # before.last_fired) =>
               (before.state # FIRING /\ after.state = FIRING
                /\ after.last_fired = after.last_checked)
          /\ (after.last_resolved # before.last_resolved) =>
               (before.state = FIRING /\ after.state = RESOLVED
                /\ after.last_resolved = after.last_checked)]_vars

\* a rule fired, resolved and fired again: last_fired is after last_resolved
C34_Witness ==
  \E n \in DOMAIN states :
    /\ states[n].state = FIRING
    /\ states[n].last_resolved # NoTime
    /\ states[n].last_fired > states[n].last_resolved
    /\ last.op = "update_state"

\* C35: a tick that finds an OK rule's condition not met changes nothing of
\* the record but last_checked, current_value and threshold, returns
\* changed = false and should_notify = false, and still writes the record to
\* the state index.
C35_OkToOkIsNoOp ==
  (last.op = "tick" /\ last.query = "ok"
   /\ last.before.state = OK /\ ~last.er.condition_met) =>
    /\ After.state = OK
    /\ After.consecutive_fires = last.before.consecutive_fires
    /\ After.last_fired = last.before.last_fired
    /\ After.last_resolved = last.before.last_resolved
    /\ After.last_notified = last.before.last_notified
    /\ After.last_checked = last.unow
    /\ After.current_value = last.er.actual_value
    /\ After.threshold = last.rule.condition.value
    /\ last.tr.previous_state = OK /\ last.tr.new_state = OK
    /\ ~last.tr.changed /\ ~last.tr.should_notify
    /\ last.persist \in {"written", "failed"}
    /\ (last.persist = "written") =>
         /\ last.rule.name \in DOMAIN stateIndex
         /\ stateIndex[last.rule.name] = to_dict(After)

\* an OK rule that has fired, resolved and notified before stays OK and the
\* record is written
C35_Witness ==
  /\ last.op = "tick" /\ last.query = "ok"
  /\ last.before.state = OK /\ ~last.er.condition_met
  /\ last.before.last_fired # NoTime
  /\ last.before.last_resolved # NoTime
  /\ last.before.last_notified # NoTime
  /\ last.persist = "written"

\* C36: a record appears in the map of the state manager only in a step
\* that evaluates its rule or in the restore of startup, and GET /rules and
\* GET /rules/{name}/status leave the map as it was.
C36_RecordsAreLazy ==
  [][/\ \A n \in DOMAIN states' \ DOMAIN states :
          \/ last'.op = "startup"
          \/ last'.persist # "none" /\ last'.rule.name = n
     /\ (last'.op \in {"list_rules", "get_rule_status"}) =>
          states' = states]_vars

\* the fired and resolved events of the history, as positions
TransitionEvents ==
  {i \in 1..Len(history) : history[i].event_type \in {"fired", "resolved"}}

\* C37: the fired/resolved events of one rule are in the history in the
\* order of the transitions that produced them: of two such events the one
\* written first is of the tick that ran first (a tick's timestamp is read
\* in the step that also makes its transition).
C37_HistoryInTransitionOrder ==
  \A i \in TransitionEvents, j \in TransitionEvents :
    (i < j /\ history[i].rule_name = history[j].rule_name) =>
      parse_dt(history[i].timestamp) < parse_dt(history[j].timestamp)

\* C38: the manual_trigger event trigger_manual returns for a known rule
\* after a successful query carries the value, the threshold and the
\* condition_met of the evaluation that call made.
C38_ManualEventIsOwnEvaluation ==
  (last.finished /\ IsManual(last.task) /\ last.query # "failed") =>
    /\ Len(last.ret) = 1
    /\ last.ret[1].event_type = "manual_trigger"
    /\ last.ret[1].value = last.er.actual_value
    /\ last.ret[1].threshold = last.er.threshold
    /\ last.ret[1].condition_met = last.er.condition_met

\* the step just taken is an evaluation of the rule that found the
\* condition met / not met
FoundMet(l, rule_name) ==
  l.op = "update_state" /\ l.rule.name = rule_name /\ l.er.condition_met

FoundCleared(l, rule_name) ==
  l.op = "update_state" /\ l.rule.name = rule_name /\ ~l.er.condition_met

InState(rule_name, state) ==
  rule_name \in DOMAIN states /\ states[rule_name].state = state

\* C39: no rule gets stuck. Whatever record a rule has, one evaluation
\* that finds the condition met leaves it FIRING; one that finds it cleared
\* leaves it out of FIRING, and in OK when it was out of FIRING before, so
\* that two evaluations in a row that find it cleared leave it in OK; and a
\* rule whose evaluations keep running and from some point on find the
\* condition cleared is eventually in OK for good.
C39_NoRuleGetsStuck ==
  /\ [](\A i \in DOMAIN LongRunRules :
          LET n == LongRunRules[i].name
          IN /\ FoundMet(last, n) => InState(n, FIRING)
             /\ FoundCleared(last, n) =>
                  /\ ~InState(n, FIRING)
                  /\ (last.before.state # FIRING) => InState(n, OK))
  /\ [][\A i \in DOMAIN LongRunRules :
          LET n == LongRunRules[i].name
          IN (FoundCleared(last, n) /\ FoundCleared(last', n)) =>
               states'[n].state = OK]_vars
  /\ \A i \in DOMAIN LongRunRules :
       LET n == LongRunRules[i].name
       IN (<>[]~FoundMet(last, n)) => <>[]InState(n, OK)

\* a rule that was FIRING is back in OK after two evaluations in a row
\* that found the condition cleared
C39_Witness ==
  /\ FoundCleared(last, Rule1.name)
  /\ last.before.state = RESOLVED
  /\ last.before.last_resolved = last.before.last_checked
  /\ last.before.last_fired # NoTime
  /\ last.unow > RestartTime
  /\ InState(Rule1.name, OK)

\* C40: when the load of the stored records fails in initialize (the
\* except branch of _load_states is taken), the map of the state manager is
\* empty, initialize returns, and the first evaluation of any rule after it
\* starts from the default OK record.
C40_LoadFailureLeavesEmptyMap ==
  /\ []((last.op = "initialize" /\ last.load = "failed") =>
          /\ states = <<>>
          /\ ~last.raised
          /\ \A i \in DOMAIN AllRules :
               record_of(states, AllRules[i].name) =
                 AlertStateRecord(AllRules[i].name))
  /\ [][(last.op = "initialize" /\ last.load = "failed"
          /\ last'.op = "update_state") =>
           last'.before = AlertStateRecord(last'.rule.name)]_vars

====
